---- MODULE Spec2Model ----
(***************************************************************************)
(* Model of the AssetManager custody contract                              *)
(* (src/contracts/asset-manager/src): the contract's storage, its public   *)
(* entry points and the operator handlers, one action per entry point.     *)
(* An entry point that panics is aborted by the host: its invocation       *)
(* leaves the storage and the token ledger as they were.                   *)
(***************************************************************************)
EXTENDS Integers, Sequences, FiniteSets, TLC

\* ------------------------------------------------------------------ bounds
\* largest amount passed to deposit / request_withdraw / ExecuteWithdraw
MaxAmount == 1
\* tokens a user holds on the token ledger before any deposit
InitialHolding == 1
\* largest quantity / amount / fee_amount of a trade unit
MaxTradeAmount == 1
\* request_withdraw is explored while WithdrawId <= MaxWithdrawId
MaxWithdrawId == 2
\* TradeUpload is explored while BatchId <= MaxBatchId
MaxBatchId == 1
\* create_order calls that return, over a run of the exchange
MaxCreated == 3
\* largest quantity of a new order
MaxQuantity == 2
\* the number of bits of u128 and i128, scaled down: a u128 is 0 .. 2^WordBits - 1
\* and an i128 is -2^(WordBits-1) .. 2^(WordBits-1) - 1
WordBits == 8

\* --------------------------------------------------------------- universe
Users == {"u1", "u2"}
Owners == {"owner"}
Operators == {"operator"}
FeeCollectors == {"fc"}
Accounts == Users \cup FeeCollectors
Contract == "contract"
\* the address of the deployed exchange (orderbook) contract
ExchangeContract == "exchange"
Holders == Accounts \cup {Contract, ExchangeContract}
Tokens == {"t1", "t2"}
Symbols == {"A", "B"}
PubKeys == {"k1", "k2"}
KeyIds == {1}
Orders == {"o1", "o2"}

\* Option<T>: the empty sequence is None, a one-element sequence is Some(x)
None == <<>>
Some(x) == <<x>>
IsSome(o) == o # <<>>
Unwrap(o) == o[1]

VARIABLES
  Owner,            \* instance storage, DataKey::Owner: Option<Address>
  OperatorManager,  \* DataKey::OperatorManager: Option<Address>
  FeeCollector,     \* DataKey::FeeCollector: Option<Address>
  WithdrawId,       \* DataKey::WithdrawId: Option<u64>
  BatchId,          \* DataKey::BatchId: Option<u64>
  token_status,     \* TokenManager{token} -> Option<ListingStatus>
  pair_info,        \* PairManager{symbol} -> Option<PairStorageInfo>
  public_key,       \* KeyManager{user,key_id} -> Option<BytesN<32>>
  user_balance,     \* UserBalanceManager{user,token} -> UserBalances
  withdraw_request, \* WithdrawRequestManager{id} -> Option<WithdrawData>
  ledger,           \* the token contracts: token -> holder -> amount
  returned_ids,     \* the ids returned by the successful request_withdraw calls
  processed,        \* the batch ids of the successful TradeUpload calls
  order_book_store, \* exchange contract, OrderBookStoreId{token1,token2} -> Option<OrderBook>
  trading_balance,  \* exchange contract, UserBalanceManager{user,token} -> UserBalances
  created,          \* the number of create_order calls that returned
  overflow_checks   \* exchange contract, the build: does an overflowing u128 product panic

vars == <<Owner, OperatorManager, FeeCollector, WithdrawId, BatchId, token_status,
          pair_info, public_key, user_balance, withdraw_request, ledger,
          returned_ids, processed, order_book_store, trading_balance, created,
          overflow_checks>>

\* the storage of the AssetManager contract and the storage of the exchange
\* contract: two deployments, which share only the token contracts
asset_manager_vars == <<Owner, OperatorManager, FeeCollector, WithdrawId, BatchId,
                        token_status, pair_info, public_key, user_balance,
                        withdraw_request, returned_ids, processed>>
exchange_vars == <<order_book_store, trading_balance, created, overflow_checks>>

\* The contract's storage and the token ledger as one value: the Env `e` that
\* every function of the contract receives.
Env ==
  [Owner |-> Owner, OperatorManager |-> OperatorManager, FeeCollector |-> FeeCollector,
   WithdrawId |-> WithdrawId, BatchId |-> BatchId, token_status |-> token_status,
   pair_info |-> pair_info, public_key |-> public_key, user_balance |-> user_balance,
   withdraw_request |-> withdraw_request, ledger |-> ledger]

\* Outcomes of a function of the contract: it returns (Ok), or it panics with
\* an error and the host discards every write of the invocation.
Ok(e) == [err |-> "Ok", e |-> e, ret |-> 0]
OkRet(e, r) == [err |-> "Ok", e |-> e, ret |-> r]
Panic(e, code) == [err |-> code, e |-> e, ret |-> 0]

WithdrawIds == 1..(MaxWithdrawId + 1)

\* ----------------------------------------------------------- storage types
UserBalances(b, w) == [balance |-> b, balance_on_withdraw |-> w]

read_user_balance(e, user, token) == e.user_balance[<<user, token>>]

write_user_balance(e, user, token, balances) ==
  [e EXCEPT !.user_balance[<<user, token>>] = balances]

TokenManager_is_listed(e, token) ==
  IF IsSome(e.token_status[token]) THEN Unwrap(e.token_status[token]) = "Listed" ELSE FALSE

\* mutant of set_listing_status: the stored status is not compared
TokenManager_set_listing_status_unchecked(e, token, status) ==
  Ok([e EXCEPT !.token_status[token] = Some(status)])

TokenManager_set_listing_status(e, token, status) ==
  IF IsSome(e.token_status[token]) /\ status = Unwrap(e.token_status[token])
  THEN Panic(e, "ErrSameValueStored")
  ELSE Ok([e EXCEPT !.token_status[token] = Some(status)])

PairStorageInfo(t1, t2, status) == [token1 |-> t1, token2 |-> t2, status |-> status]

PairManager_is_listed(e, symbol) ==
  IF IsSome(e.pair_info[symbol]) THEN Unwrap(e.pair_info[symbol]).status = "Listed" ELSE FALSE

\* mutant of set_pair_info: the tokens are not compared with the stored ones
PairManager_set_pair_info_any_pair(e, symbol, info) ==
  LET stored == e.pair_info[symbol] IN
  IF IsSome(stored) /\ info.status = Unwrap(stored).status
    THEN Panic(e, "ErrSameValueStored")
  ELSE IF info.token1 = info.token2
    THEN Panic(e, "ErrSamePairTokens")
  ELSE Ok([e EXCEPT !.pair_info[symbol] = Some(info)])

PairManager_set_pair_info(e, symbol, info) ==
  LET stored == e.pair_info[symbol] IN
  IF IsSome(stored) /\ info.status = Unwrap(stored).status
    THEN Panic(e, "ErrSameValueStored")
  ELSE IF IsSome(stored) /\ ~(info.token1 = Unwrap(stored).token1
                               /\ info.token2 = Unwrap(stored).token2)
    THEN Panic(e, "ErrChangingPair")
  ELSE IF info.token1 = info.token2
    THEN Panic(e, "ErrSamePairTokens")
  ELSE Ok([e EXCEPT !.pair_info[symbol] = Some(info)])

\* the token contract's transfer(from, to, amount): it panics on a negative
\* amount and when `from` holds less than amount
token_transfer(e, token, from, to, amount) ==
  IF amount < 0 \/ e.ledger[token][from] < amount
  THEN Panic(e, "TokenTransferFailed")
  ELSE Ok([e EXCEPT !.ledger[token] =
             [h \in Holders |->
                 e.ledger[token][h] - (IF h = from THEN amount ELSE 0)
                                    + (IF h = to THEN amount ELSE 0)]])

\* mutant of get_new_withdraw_id: the incremented id is not stored
get_new_withdraw_id_no_store(e) ==
  IF ~IsSome(e.WithdrawId) THEN Panic(e, "UnwrapNone")
  ELSE OkRet(e, Unwrap(e.WithdrawId))

get_new_withdraw_id(e) ==
  IF ~IsSome(e.WithdrawId) THEN Panic(e, "UnwrapNone")
  ELSE OkRet([e EXCEPT !.WithdrawId = Some(Unwrap(e.WithdrawId) + 1)], Unwrap(e.WithdrawId))

WithdrawData(user, token, amount, status) ==
  [user |-> user, token |-> token, amount |-> amount, status |-> status]

write_withdraw_request(e, id, data) ==
  IF IsSome(e.withdraw_request[id]) /\ Unwrap(e.withdraw_request[id]) = data
  THEN Panic(e, "ErrSameWithdrawDataExist")
  ELSE Ok([e EXCEPT !.withdraw_request[id] = Some(data)])

\* ------------------------------------------------------------ entry points
get_owner(e) ==
  IF IsSome(e.Owner) THEN OkRet(e, Unwrap(e.Owner)) ELSE Panic(e, "ErrNotInitialized")

\* mutant of initialize: a stored owner does not stop it
initialize_again(e, owner, operator_manager, fee_collector) ==
  Ok([e EXCEPT !.Owner = Some(owner),
               !.OperatorManager = Some(operator_manager),
               !.FeeCollector = Some(fee_collector),
               !.WithdrawId = Some(1),
               !.BatchId = Some(1)])

initialize(e, owner, operator_manager, fee_collector) ==
  IF IsSome(e.Owner) THEN Panic(e, "ErrAlreadyInitialized")
  ELSE Ok([e EXCEPT !.Owner = Some(owner),
                    !.OperatorManager = Some(operator_manager),
                    !.FeeCollector = Some(fee_collector),
                    !.WithdrawId = Some(1),
                    !.BatchId = Some(1)])

set_token_status(e, auth, token, status) ==
  IF ~IsSome(e.Owner) THEN Panic(e, "ErrNotInitialized")
  ELSE IF ~auth THEN Panic(e, "AuthFailed")
  ELSE TokenManager_set_listing_status(e, token, status)

\* mutant of set_pair_status: only token1 has to be listed
set_pair_status_first_token_only(e, auth, symbol, token1, token2, status) ==
  IF ~IsSome(e.Owner) THEN Panic(e, "ErrNotInitialized")
  ELSE IF ~auth THEN Panic(e, "AuthFailed")
  ELSE IF ~TokenManager_is_listed(e, token1) THEN Panic(e, "ErrTokenIsNotListed")
  ELSE PairManager_set_pair_info(e, symbol, PairStorageInfo(token1, token2, status))

set_pair_status(e, auth, symbol, token1, token2, status) ==
  IF ~IsSome(e.Owner) THEN Panic(e, "ErrNotInitialized")
  ELSE IF ~auth THEN Panic(e, "AuthFailed")
  ELSE IF ~TokenManager_is_listed(e, token1) THEN Panic(e, "ErrTokenIsNotListed")
  ELSE IF ~TokenManager_is_listed(e, token2) THEN Panic(e, "ErrTokenIsNotListed")
  ELSE PairManager_set_pair_info(e, symbol, PairStorageInfo(token1, token2, status))

\* mutant of deposit: the balance is credited without a token transfer
deposit_no_transfer(e, auth, user, token, amount) ==
  IF ~auth THEN Panic(e, "AuthFailed")
  ELSE IF ~(amount > 0) THEN Panic(e, "ErrAmountMustBePositive")
  ELSE IF ~TokenManager_is_listed(e, token) THEN Panic(e, "ErrTokenIsNotListed")
  ELSE LET balances == read_user_balance(e, user, token) IN
       Ok(write_user_balance(e, user, token, [balances EXCEPT !.balance = @ + amount]))

\* mutant of deposit: the listing status of the token is not checked
deposit_unlisted(e, auth, user, token, amount) ==
  IF ~auth THEN Panic(e, "AuthFailed")
  ELSE IF ~(amount > 0) THEN Panic(e, "ErrAmountMustBePositive")
  ELSE LET t == token_transfer(e, token, user, Contract, amount) IN
       IF t.err # "Ok" THEN Panic(e, t.err)
       ELSE LET balances == read_user_balance(t.e, user, token) IN
            Ok(write_user_balance(t.e, user, token,
                 [balances EXCEPT !.balance = @ + amount]))

deposit(e, auth, user, token, amount) ==
  IF ~auth THEN Panic(e, "AuthFailed")
  ELSE IF ~(amount > 0) THEN Panic(e, "ErrAmountMustBePositive")
  ELSE IF ~TokenManager_is_listed(e, token) THEN Panic(e, "ErrTokenIsNotListed")
  ELSE LET t == token_transfer(e, token, user, Contract, amount) IN
       IF t.err # "Ok" THEN Panic(e, t.err)
       ELSE LET balances == read_user_balance(t.e, user, token) IN
            Ok(write_user_balance(t.e, user, token,
                 [balances EXCEPT !.balance = @ + amount]))

\* mutant of request_withdraw: the whole balance cannot be requested
request_withdraw_strict(e, auth, user, token, amount) ==
  IF ~auth THEN Panic(e, "AuthFailed")
  ELSE IF ~(amount > 0) THEN Panic(e, "ErrAmountMustBePositive")
  ELSE LET balances == read_user_balance(e, user, token) IN
       IF ~(balances.balance > amount) THEN Panic(e, "ErrBalanceNotEnough")
       ELSE LET moved == [balances EXCEPT !.balance = @ - amount,
                                          !.balance_on_withdraw = @ + amount]
                e1 == write_user_balance(e, user, token, moved)
                n == get_new_withdraw_id(e1)
            IN IF n.err # "Ok" THEN Panic(e, n.err)
               ELSE LET data == WithdrawData(user, token, amount, "Requested")
                        w == write_withdraw_request(n.e, n.ret, data)
                    IN IF w.err # "Ok" THEN Panic(e, w.err)
                       ELSE OkRet(w.e, n.ret)

request_withdraw(e, auth, user, token, amount) ==
  IF ~auth THEN Panic(e, "AuthFailed")
  ELSE IF ~(amount > 0) THEN Panic(e, "ErrAmountMustBePositive")
  ELSE LET balances == read_user_balance(e, user, token) IN
       IF ~(balances.balance >= amount) THEN Panic(e, "ErrBalanceNotEnough")
       ELSE LET moved == [balances EXCEPT !.balance = @ - amount,
                                          !.balance_on_withdraw = @ + amount]
                e1 == write_user_balance(e, user, token, moved)
                n == get_new_withdraw_id(e1)
            IN IF n.err # "Ok" THEN Panic(e, n.err)
               ELSE LET data == WithdrawData(user, token, amount, "Requested")
                        e2 == write_user_balance(n.e, user, token, moved)
                        w == write_withdraw_request(e2, n.ret, data)
                    IN IF w.err # "Ok" THEN Panic(e, w.err)
                       ELSE OkRet(w.e, n.ret)

KeyManager_read_public_key(e, user, key_id) ==
  IF IsSome(e.public_key[<<user, key_id>>])
  THEN OkRet(e, Unwrap(e.public_key[<<user, key_id>>]))
  ELSE Panic(e, "ErrNoUserPublicKeyExist")

\* mutant of write_public_key: a stored key is overwritten
KeyManager_write_public_key_overwrite(e, user, key_id, key) ==
  Ok([e EXCEPT !.public_key[<<user, key_id>>] = Some(key)])

KeyManager_write_public_key(e, user, key_id, key) ==
  IF IsSome(e.public_key[<<user, key_id>>])
  THEN Panic(e, "ErrPublicKeyAlreadyExist")
  ELSE Ok([e EXCEPT !.public_key[<<user, key_id>>] = Some(key)])

user_announce_key(e, auth, user, key_id, key) ==
  IF ~auth THEN Panic(e, "AuthFailed")
  ELSE KeyManager_write_public_key(e, user, key_id, key)

\* A signature is the pair (key that produced it, bytes it was produced over):
\* it verifies under exactly that key and those bytes.
Signature(signer, message) == [signer |-> signer, message |-> message]

ed25519_verify(key, message, signature) ==
  signature.signer = key /\ signature.message = message

\* ------------------------------------------------------------------ getters
AssetManager_owner(e) == get_owner(e)

is_token_listed(e, token) == TokenManager_is_listed(e, token)

is_pair_listed(e, symbol) == PairManager_is_listed(e, symbol)

get_user_key(e, user, key_id) == KeyManager_read_public_key(e, user, key_id)

\* ------------------------------------------------------- operator handlers
read_withdraw_request(e, id) ==
  IF IsSome(e.withdraw_request[id]) THEN OkRet(e, Unwrap(e.withdraw_request[id]))
  ELSE Panic(e, "ErrWithdrawDataNotExist")

\* mutant of process_withdraw_request: the status of the record is not checked
process_withdraw_request_unchecked(e, withdraw_data) ==
  LET id == withdraw_data.id
      user == withdraw_data.user
      token == withdraw_data.token
      amount == withdraw_data.amount
      r == read_withdraw_request(e, id)
  IN
  IF r.err # "Ok" THEN Panic(e, r.err)
  ELSE IF ~(r.ret.user = user /\ r.ret.token = token /\ r.ret.amount = amount)
    THEN Panic(e, "ErrWithdrawRequestDataMismatch")
  ELSE
    LET balances == read_user_balance(e, user, token) IN
    IF withdraw_data.execution_status = "Approve"
    THEN
      IF ~(balances.balance_on_withdraw >= amount) THEN Panic(e, "ErrBalanceNotEnough")
      ELSE LET t == token_transfer(e, token, Contract, user, amount) IN
           IF t.err # "Ok" THEN Panic(e, t.err)
           ELSE LET e1 == write_user_balance(t.e, user, token,
                            [balances EXCEPT !.balance_on_withdraw = @ - amount])
                    w == write_withdraw_request(e1, id, [r.ret EXCEPT !.status = "Executed"])
                IN IF w.err # "Ok" THEN Panic(e, w.err) ELSE Ok(w.e)
    ELSE
      LET e1 == write_user_balance(e, user, token,
                  [balances EXCEPT !.balance_on_withdraw = @ - amount,
                                   !.balance = @ + amount])
          w == write_withdraw_request(e1, id, [r.ret EXCEPT !.status = "Rejected"])
      IN IF w.err # "Ok" THEN Panic(e, w.err) ELSE Ok(w.e)

\* mutant of process_withdraw_request: a rejected amount is not returned to balance
process_withdraw_request_no_refund(e, withdraw_data) ==
  LET id == withdraw_data.id
      user == withdraw_data.user
      token == withdraw_data.token
      amount == withdraw_data.amount
      r == read_withdraw_request(e, id)
  IN
  IF r.err # "Ok" THEN Panic(e, r.err)
  ELSE IF ~(r.ret.status = "Requested") THEN Panic(e, "ErrWithdrawRequestAlreadyProcessed")
  ELSE IF ~(r.ret.user = user /\ r.ret.token = token /\ r.ret.amount = amount)
    THEN Panic(e, "ErrWithdrawRequestDataMismatch")
  ELSE
    LET balances == read_user_balance(e, user, token) IN
    IF withdraw_data.execution_status = "Approve"
    THEN
      IF ~(balances.balance_on_withdraw >= amount) THEN Panic(e, "ErrBalanceNotEnough")
      ELSE LET t == token_transfer(e, token, Contract, user, amount) IN
           IF t.err # "Ok" THEN Panic(e, t.err)
           ELSE LET e1 == write_user_balance(t.e, user, token,
                            [balances EXCEPT !.balance_on_withdraw = @ - amount])
                    w == write_withdraw_request(e1, id, [r.ret EXCEPT !.status = "Executed"])
                IN IF w.err # "Ok" THEN Panic(e, w.err) ELSE Ok(w.e)
    ELSE
      LET e1 == write_user_balance(e, user, token,
                  [balances EXCEPT !.balance_on_withdraw = @ - amount])
          w == write_withdraw_request(e1, id, [r.ret EXCEPT !.status = "Rejected"])
      IN IF w.err # "Ok" THEN Panic(e, w.err) ELSE Ok(w.e)

\* mutant of process_withdraw_request: the supplied user, token and amount are not
\* compared with the stored ones
process_withdraw_request_any_data(e, withdraw_data) ==
  LET id == withdraw_data.id
      user == withdraw_data.user
      token == withdraw_data.token
      amount == withdraw_data.amount
      r == read_withdraw_request(e, id)
  IN
  IF r.err # "Ok" THEN Panic(e, r.err)
  ELSE IF ~(r.ret.status = "Requested") THEN Panic(e, "ErrWithdrawRequestAlreadyProcessed")
  ELSE
    LET balances == read_user_balance(e, user, token) IN
    IF withdraw_data.execution_status = "Approve"
    THEN
      IF ~(balances.balance_on_withdraw >= amount) THEN Panic(e, "ErrBalanceNotEnough")
      ELSE LET t == token_transfer(e, token, Contract, user, amount) IN
           IF t.err # "Ok" THEN Panic(e, t.err)
           ELSE LET e1 == write_user_balance(t.e, user, token,
                            [balances EXCEPT !.balance_on_withdraw = @ - amount])
                    w == write_withdraw_request(e1, id, [r.ret EXCEPT !.status = "Executed"])
                IN IF w.err # "Ok" THEN Panic(e, w.err) ELSE Ok(w.e)
    ELSE
      LET e1 == write_user_balance(e, user, token,
                  [balances EXCEPT !.balance_on_withdraw = @ - amount,
                                   !.balance = @ + amount])
          w == write_withdraw_request(e1, id, [r.ret EXCEPT !.status = "Rejected"])
      IN IF w.err # "Ok" THEN Panic(e, w.err) ELSE Ok(w.e)

\* withdraw_data: ExecutionWithdrawData {id, user, token, amount, execution_status}
process_withdraw_request(e, withdraw_data) ==
  LET id == withdraw_data.id
      user == withdraw_data.user
      token == withdraw_data.token
      amount == withdraw_data.amount
      r == read_withdraw_request(e, id)
  IN
  IF r.err # "Ok" THEN Panic(e, r.err)
  ELSE IF ~(r.ret.status = "Requested") THEN Panic(e, "ErrWithdrawRequestAlreadyProcessed")
  ELSE IF ~(r.ret.user = user /\ r.ret.token = token /\ r.ret.amount = amount)
    THEN Panic(e, "ErrWithdrawRequestDataMismatch")
  ELSE
    LET balances == read_user_balance(e, user, token) IN
    IF withdraw_data.execution_status = "Approve"
    THEN
      IF ~(balances.balance_on_withdraw >= amount) THEN Panic(e, "ErrBalanceNotEnough")
      ELSE LET t == token_transfer(e, token, Contract, user, amount) IN
           IF t.err # "Ok" THEN Panic(e, t.err)
           ELSE LET e1 == write_user_balance(t.e, user, token,
                            [balances EXCEPT !.balance_on_withdraw = @ - amount])
                    w == write_withdraw_request(e1, id, [r.ret EXCEPT !.status = "Executed"])
                IN IF w.err # "Ok" THEN Panic(e, w.err) ELSE Ok(w.e)
    ELSE
      LET e1 == write_user_balance(e, user, token,
                  [balances EXCEPT !.balance_on_withdraw = @ - amount,
                                   !.balance = @ + amount])
          w == write_withdraw_request(e1, id, [r.ret EXCEPT !.status = "Rejected"])
      IN IF w.err # "Ok" THEN Panic(e, w.err) ELSE Ok(w.e)

\* ------------------------------------------------------------ trade upload
\* TradeUploadPair::verify_signature
verify_signature(e, trade_upload) ==
  LET k == KeyManager_read_public_key(e, trade_upload.account, trade_upload.pub_key_id) IN
  IF k.err # "Ok" THEN Panic(e, k.err)
  ELSE IF ~ed25519_verify(k.ret, trade_upload.order, trade_upload.order_signature)
    THEN Panic(e, "Ed25519VerifyFailed")
  ELSE Ok(e)

\* mutant of verify_signatures: only the buy side is verified
verify_signatures_buy_only(e, trade_pair) == verify_signature(e, trade_pair.buy_side)

verify_signatures(e, trade_pair) ==
  LET b == verify_signature(e, trade_pair.buy_side) IN
  IF b.err # "Ok" THEN b ELSE verify_signature(e, trade_pair.sell_side)

get_pair(e, symbol) ==
  IF IsSome(e.pair_info[symbol])
  THEN OkRet(e, <<Unwrap(e.pair_info[symbol]).token1, Unwrap(e.pair_info[symbol]).token2>>)
  ELSE Panic(e, "ErrFinalized")

\* mutant of execute_trade: the debit is not compared with the balance
execute_trade_unchecked(e, trade, pair, side) ==
  LET token_transfer_ == IF side = "Buy" THEN pair[2] ELSE pair[1]
      token_transfer_amount == IF side = "Buy" THEN trade.amount ELSE trade.quantity
      token_deposit == IF side = "Buy" THEN pair[1] ELSE pair[2]
      token_deposit_amount == IF side = "Buy" THEN trade.quantity ELSE trade.amount
      d == read_user_balance(e, trade.account, token_deposit)
      e1 == write_user_balance(e, trade.account, token_deposit,
              [d EXCEPT !.balance = @ + token_deposit_amount])
      t == read_user_balance(e1, trade.account, token_transfer_)
  IN Ok(write_user_balance(e1, trade.account, token_transfer_,
          [t EXCEPT !.balance = @ - token_transfer_amount]))

\* side is "Buy" or "Sell"; pair is <<token1, token2>>
execute_trade(e, trade, pair, side) ==
  LET token_transfer_ == IF side = "Buy" THEN pair[2] ELSE pair[1]
      token_transfer_amount == IF side = "Buy" THEN trade.amount ELSE trade.quantity
      token_deposit == IF side = "Buy" THEN pair[1] ELSE pair[2]
      token_deposit_amount == IF side = "Buy" THEN trade.quantity ELSE trade.amount
      d == read_user_balance(e, trade.account, token_deposit)
      e1 == write_user_balance(e, trade.account, token_deposit,
              [d EXCEPT !.balance = @ + token_deposit_amount])
      t == read_user_balance(e1, trade.account, token_transfer_)
  IN IF ~(t.balance >= token_transfer_amount) THEN Panic(e, "ErrBalanceNotEnough")
     ELSE Ok(write_user_balance(e1, trade.account, token_transfer_,
               [t EXCEPT !.balance = @ - token_transfer_amount]))

get_fee_collector(e) ==
  IF IsSome(e.FeeCollector) THEN OkRet(e, Unwrap(e.FeeCollector))
  ELSE Panic(e, "ErrNotInitialized")

\* mutant of withdraw_fee: the fee is debited but not credited to the collector
withdraw_fee_no_credit(e, trade) ==
  IF trade.fee_amount = 0 THEN Ok(e)
  ELSE
    LET u == read_user_balance(e, trade.account, trade.fee_token_asset) IN
    IF ~(u.balance >= trade.fee_amount) THEN Panic(e, "ErrBalanceNotEnough")
    ELSE Ok(write_user_balance(e, trade.account, trade.fee_token_asset,
              [u EXCEPT !.balance = @ - trade.fee_amount]))

withdraw_fee(e, trade) ==
  IF trade.fee_amount = 0 THEN Ok(e)
  ELSE
    LET u == read_user_balance(e, trade.account, trade.fee_token_asset) IN
    IF ~(u.balance >= trade.fee_amount) THEN Panic(e, "ErrBalanceNotEnough")
    ELSE
      LET e1 == write_user_balance(e, trade.account, trade.fee_token_asset,
                  [u EXCEPT !.balance = @ - trade.fee_amount])
          fc == get_fee_collector(e1)
      IN IF fc.err # "Ok" THEN Panic(e, fc.err)
         ELSE LET c == read_user_balance(e1, fc.ret, trade.fee_token_asset) IN
              Ok(write_user_balance(e1, fc.ret, trade.fee_token_asset,
                   [c EXCEPT !.balance = @ + trade.fee_amount]))

execute_pair_swap(e, trade_pair) ==
  IF ~(trade_pair.buy_side.symbol = trade_pair.sell_side.symbol)
    THEN Panic(e, "ErrTradeSymbolsNotMatch")
  ELSE
    LET pair == get_pair(e, trade_pair.buy_side.symbol) IN
    IF pair.err # "Ok" THEN Panic(e, pair.err)
    ELSE
      LET b == execute_trade(e, trade_pair.buy_side, pair.ret, "Buy") IN
      IF b.err # "Ok" THEN Panic(e, b.err)
      ELSE
        LET bf == withdraw_fee(b.e, trade_pair.buy_side) IN
        IF bf.err # "Ok" THEN Panic(e, bf.err)
        ELSE
          LET s == execute_trade(bf.e, trade_pair.sell_side, pair.ret, "Sell") IN
          IF s.err # "Ok" THEN Panic(e, s.err)
          ELSE
            LET sf == withdraw_fee(s.e, trade_pair.sell_side) IN
            IF sf.err # "Ok" THEN Panic(e, sf.err) ELSE Ok(sf.e)

get_batch_id(e) ==
  IF IsSome(e.BatchId) THEN OkRet(e, Unwrap(e.BatchId)) ELSE Panic(e, "UnwrapNone")

increment_batch_id(e) ==
  LET current_batch_id == get_batch_id(e) IN
  IF current_batch_id.err # "Ok" THEN Panic(e, current_batch_id.err)
  ELSE Ok([e EXCEPT !.BatchId = Some(current_batch_id.ret + 1)])

\* the loop of process_trades_batch over trade_data.trades, from pair i on
RECURSIVE trades_loop(_, _, _)
trades_loop(e, trades, i) ==
  IF i > Len(trades) THEN Ok(e)
  ELSE LET v == verify_signatures(e, trades[i]) IN
       IF v.err # "Ok" THEN v
       ELSE LET x == execute_pair_swap(e, trades[i]) IN
            IF x.err # "Ok" THEN x
            ELSE trades_loop(x.e, trades, i + 1)

\* mutant of process_trades_batch: the batch id is not compared with BatchId
process_trades_batch_any_id(e, trade_data) ==
  LET b == get_batch_id(e) IN
  IF b.err # "Ok" THEN Panic(e, b.err)
  ELSE LET l == trades_loop(e, trade_data.trades, 1) IN
       IF l.err # "Ok" THEN Panic(e, l.err)
       ELSE LET n == increment_batch_id(l.e) IN
            IF n.err # "Ok" THEN Panic(e, n.err) ELSE Ok(n.e)

\* mutant of process_trades_batch: a failing pair ends the batch with an error
\* but the writes of the pairs before it are kept
process_trades_batch_partial(e, trade_data) ==
  LET b == get_batch_id(e) IN
  IF b.err # "Ok" THEN Panic(e, b.err)
  ELSE IF ~(trade_data.batch_id = b.ret) THEN Panic(e, "ErrBatchIdNotMatch")
  ELSE LET l == trades_loop(e, trade_data.trades, 1) IN
       IF l.err # "Ok" THEN Panic(l.e, l.err)
       ELSE LET n == increment_batch_id(l.e) IN
            IF n.err # "Ok" THEN Panic(e, n.err) ELSE Ok(n.e)

\* trade_data: TradeUploadData {batch_id, trades}
process_trades_batch(e, trade_data) ==
  LET b == get_batch_id(e) IN
  IF b.err # "Ok" THEN Panic(e, b.err)
  ELSE IF ~(trade_data.batch_id = b.ret) THEN Panic(e, "ErrBatchIdNotMatch")
  ELSE LET l == trades_loop(e, trade_data.trades, 1) IN
       IF l.err # "Ok" THEN Panic(e, l.err)
       ELSE LET n == increment_batch_id(l.e) IN
            IF n.err # "Ok" THEN Panic(e, n.err) ELSE Ok(n.e)

get_operator_manager(e) ==
  IF IsSome(e.OperatorManager) THEN OkRet(e, Unwrap(e.OperatorManager))
  ELSE Panic(e, "ErrNotInitialized")

\* action: [kind, data] with kind one of ValidateUserSignature, ExecuteWithdraw,
\* TradeUpload
execute_action(e, auth, action) ==
  LET operator_manager == get_operator_manager(e) IN
  IF operator_manager.err # "Ok" THEN Panic(e, operator_manager.err)
  ELSE IF ~auth THEN Panic(e, "AuthFailed")
  ELSE IF action.kind = "ValidateUserSignature"
    THEN LET k == KeyManager_read_public_key(e, action.data.user, action.data.key_id) IN
         IF k.err # "Ok" THEN Panic(e, k.err)
         ELSE IF ~ed25519_verify(k.ret, action.data.message, action.data.signature)
           THEN Panic(e, "Ed25519VerifyFailed")
         ELSE Ok(e)
  ELSE IF action.kind = "ExecuteWithdraw"
    THEN process_withdraw_request(e, action.data)
  ELSE process_trades_batch(e, action.data)

AssetManager_operator_manager(e) == get_operator_manager(e)

AssetManager_fee_collector(e) == get_fee_collector(e)

\* ------------------------------------------------- exchange contract: types
\* (src/contracts/orderbook/src) The exchange keeps, for each trading pair, a
\* book of resting orders and, for each user and token, a spendable balance
\* and a balance reserved for the user's resting orders.

\* the trading pairs (token1 is the base token, token2 the quote token)
TradingPairs == {<<"t1", "t2">>}

\* initialize stores a book for whatever pair of addresses it is given, a pair
\* of one token with itself included
SamePairs == {<<"t1", "t1">>}

\* the token contract's decimals(): every token has one decimal
decimals(token) == 1

Order(order_id, account, quantity, price, fee_amount, fee_token_asset) ==
  [order_id |-> order_id, account |-> account, quantity |-> quantity, price |-> price,
   fee_amount |-> fee_amount, fee_token_asset |-> fee_token_asset]

NewOrder(quantity, price, fee_amount, fee_token_asset) ==
  [quantity |-> quantity, price |-> price, fee_amount |-> fee_amount,
   fee_token_asset |-> fee_token_asset]

\* NewOrder::into_order(account): a NewAccountOrder
NewOrder_into_order(order, account) ==
  [quantity |-> order.quantity, price |-> order.price, fee_amount |-> order.fee_amount,
   fee_token_asset |-> order.fee_token_asset, account |-> account]

\* NewAccountOrder::into_order(id)
NewAccountOrder_into_order(order, id) ==
  Order(id, order.account, order.quantity, order.price, order.fee_amount,
        order.fee_token_asset)

\* OrderBookId::BuyId(PriceLevelId{id, price}) and OrderBookId::SellId(..)
buy_id(price, id) == [variant |-> "BuyId", level |-> [id |-> id, price |-> price]]
sell_id(price, id) == [variant |-> "SellId", level |-> [id |-> id, price |-> price]]

\* a soroban Vec as a sequence: Vec index i is sequence index i + 1
VecInsert(v, i, x) == SubSeq(v, 1, i - 1) \o <<x>> \o SubSeq(v, i, Len(v))
VecRemove(v, i) == SubSeq(v, 1, i - 1) \o SubSeq(v, i + 1, Len(v))

\* Vec::binary_search on a vector in ascending order: the index of x (found),
\* or the index at which x is to be inserted to keep the order
binary_search(v, x) ==
  IF \E i \in 1..Len(v) : v[i] = x
  THEN [found |-> TRUE, index |-> CHOOSE i \in 1..Len(v) : v[i] = x]
  ELSE [found |-> FALSE, index |-> 1 + Cardinality({i \in 1..Len(v) : v[i] < x})]

\* --------------------------------------------------- exchange: price store
\* PriceStore: the orders of one price in arrival order; a removed order leaves
\* a None in its slot; order_ids maps the id of a resting order to its slot
PriceStore_new(price) ==
  [price |-> price, orders_id_counter |-> 0, orders |-> <<>>, order_ids |-> <<>>]

\* is_empty asserts that order_ids and orders agree on emptiness
PriceStore_is_empty(ps) ==
  LET ids_empty == DOMAIN ps.order_ids = {}
      all_none == \A i \in 1..Len(ps.orders) : ps.orders[i] = None
  IN IF (ids_empty /\ all_none) \/ (~ids_empty /\ ~all_none)
     THEN [err |-> "Ok", ret |-> ids_empty]
     ELSE [err |-> "InconsistentPriceNode", ret |-> FALSE]

\* mutant of remove_order: the slot is deleted and the later slots move down
PriceStore_remove_order_compacts(ps, order_id) ==
  IF order_id \notin DOMAIN ps.order_ids THEN [ret |-> None, ps |-> ps]
  ELSE LET index == ps.order_ids[order_id] IN
       [ret |-> IF index \in 1..Len(ps.orders) THEN ps.orders[index] ELSE None,
        ps |-> [ps EXCEPT
                  !.order_ids = [j \in DOMAIN ps.order_ids \ {order_id} |-> ps.order_ids[j]],
                  !.orders = VecRemove(ps.orders, index)]]

\* mutant of remove_order: the order is returned and stays in its slot
PriceStore_remove_order_keeps_slot(ps, order_id) ==
  IF order_id \notin DOMAIN ps.order_ids THEN [ret |-> None, ps |-> ps]
  ELSE [ret |-> ps.orders[ps.order_ids[order_id]], ps |-> ps]

\* remove_order: Option<Order> and the store after the call
PriceStore_remove_order(ps, order_id) ==
  IF order_id \notin DOMAIN ps.order_ids THEN [ret |-> None, ps |-> ps]
  ELSE LET index == ps.order_ids[order_id] IN
       [ret |-> IF index \in 1..Len(ps.orders) THEN ps.orders[index] ELSE None,
        ps |-> [ps EXCEPT
                  !.order_ids = [j \in DOMAIN ps.order_ids \ {order_id} |-> ps.order_ids[j]],
                  !.orders = [ps.orders EXCEPT ![index] = None]]]

PriceStore_add_order(ps, order) ==
  LET id == ps.orders_id_counter + 1 IN
  [ret |-> id,
   ps |-> [ps EXCEPT
             !.orders_id_counter = id,
             !.orders = Append(ps.orders, Some(NewAccountOrder_into_order(order, id))),
             !.order_ids = [j \in DOMAIN ps.order_ids \cup {id} |->
                              IF j = id THEN Len(ps.orders) + 1 ELSE ps.order_ids[j]]]]

\* update_order: Option<()> and the store after the call
PriceStore_update_order(ps, key, order) ==
  IF key \notin DOMAIN ps.order_ids THEN [ret |-> None, ps |-> ps]
  ELSE [ret |-> Some(TRUE),
        ps |-> [ps EXCEPT !.orders[ps.order_ids[key]] = Some(order)]]

PriceStore_try_get(ps, order_id) ==
  IF order_id \notin DOMAIN ps.order_ids
  THEN [err |-> "PriceStoreInvalidIndex", ret |-> None]
  ELSE LET index == ps.order_ids[order_id] IN
       IF index \in 1..Len(ps.orders) /\ IsSome(ps.orders[index])
       THEN [err |-> "Ok", ret |-> ps.orders[index]]
       ELSE [err |-> "PriceStoreOrderNotFoundByIndex", ret |-> None]

\* iter: the resting orders in slot order
PriceStore_iter(ps) ==
  LET F[i \in 0..Len(ps.orders)] ==
        IF i = 0 THEN <<>>
        ELSE IF IsSome(ps.orders[i]) THEN Append(F[i - 1], Unwrap(ps.orders[i]))
        ELSE F[i - 1]
  IN F[Len(ps.orders)]

\* --------------------------------------------- exchange: price level store
\* PriceLevelStore: the price stores of one side, levels_price[i] being the
\* price of levels[i]
PriceLevelStore(levels, levels_price) == [levels |-> levels, levels_price |-> levels_price]

\* the levels from the highest price down
iter_levels_rev(pls) == [i \in 1..Len(pls.levels) |-> pls.levels[Len(pls.levels) + 1 - i]]

\* the levels from the lowest price up
iter_levels(pls) == pls.levels

\* push_order: the order joins the level of its price, or opens a level at the
\* place that keeps the prices ascending
PriceLevelStore_push_order(pls, order) ==
  LET found(index, r) ==
        [ret |-> r.ret, pls |-> [pls EXCEPT !.levels[index] = r.ps]]
      new_level(index, r) ==
        [ret |-> r.ret,
         pls |-> PriceLevelStore(VecInsert(pls.levels, index, r.ps),
                                 VecInsert(pls.levels_price, index, order.price))]
      at(index) ==
        IF index.found
        THEN found(index.index, PriceStore_add_order(pls.levels[index.index], order))
        ELSE new_level(index.index, PriceStore_add_order(PriceStore_new(order.price), order))
  IN at(binary_search(pls.levels_price, order.price))

\* update_order: Option<()> and the store after the call; the result of the
\* price store's update_order is dropped
PriceLevelStore_update_order(pls, price_id, order) ==
  LET level(index, r) ==
        [ret |-> Some(TRUE), pls |-> [pls EXCEPT !.levels[index] = r.ps]]
      at(index) ==
        IF ~index.found THEN [ret |-> None, pls |-> pls]
        ELSE IF index.index > Len(pls.levels) THEN [ret |-> None, pls |-> pls]
        ELSE level(index.index,
                   PriceStore_update_order(pls.levels[index.index], price_id.id, order))
  IN at(binary_search(pls.levels_price, price_id.price))

\* mutant of remove_order: a level left without orders is kept
PriceLevelStore_remove_order_keeps_level(pls, price, order_id) ==
  LET failed(code) == [err |-> code, ret |-> None, pls |-> pls]
      removed(index, r) ==
        IF ~IsSome(r.ret) THEN failed("LevelsStoreRemoveFailed")
        ELSE [err |-> "Ok", ret |-> r.ret, pls |-> [pls EXCEPT !.levels[index] = r.ps]]
      at(index) ==
        IF ~index.found THEN failed("LevelsStorePriceNotFound")
        ELSE IF index.index > Len(pls.levels) THEN failed("LevelsStoreLevelNotFound")
        ELSE removed(index.index, PriceStore_remove_order(pls.levels[index.index], order_id))
  IN at(binary_search(pls.levels_price, price))

\* remove_order: Result<Order, Error> and the store after the call; a level
\* left without orders is deleted
PriceLevelStore_remove_order(pls, price, order_id) ==
  LET failed(code) == [err |-> code, ret |-> None, pls |-> pls]
      level(index, r, empty) ==
        IF empty.err # "Ok" THEN failed(empty.err)
        ELSE IF empty.ret
          THEN [err |-> "Ok", ret |-> r.ret,
                pls |-> PriceLevelStore(VecRemove(pls.levels, index),
                                        VecRemove(pls.levels_price, index))]
        ELSE [err |-> "Ok", ret |-> r.ret, pls |-> [pls EXCEPT !.levels[index] = r.ps]]
      removed(index, r) ==
        IF ~IsSome(r.ret) THEN failed("LevelsStoreRemoveFailed")
        ELSE level(index, r, PriceStore_is_empty(r.ps))
      at(index) ==
        IF ~index.found THEN failed("LevelsStorePriceNotFound")
        ELSE IF index.index > Len(pls.levels) THEN failed("LevelsStoreLevelNotFound")
        ELSE removed(index.index, PriceStore_remove_order(pls.levels[index.index], order_id))
  IN at(binary_search(pls.levels_price, price))

PriceLevelStore_try_get(pls, price, order_id) ==
  LET at(index) ==
        IF ~index.found THEN [err |-> "LevelsStorePriceNotFound", ret |-> None]
        ELSE IF index.index > Len(pls.levels)
          THEN [err |-> "LevelsStoreLevelNotFound", ret |-> None]
        ELSE PriceStore_try_get(pls.levels[index.index], order_id)
  IN at(binary_search(pls.levels_price, price))

\* ---------------------------------------------------- exchange: order book
\* OrderBook::new: a book is its buy side and its sell side
OrderBook_new ==
  [buy_orders |-> PriceLevelStore(<<>>, <<>>), sell_orders |-> PriceLevelStore(<<>>, <<>>)]

add_buy_order(book, order) ==
  LET id(r) == [ret |-> buy_id(order.price, r.ret),
                book |-> [book EXCEPT !.buy_orders = r.pls]]
  IN id(PriceLevelStore_push_order(book.buy_orders, order))

add_sell_order(book, order) ==
  LET id(r) == [ret |-> sell_id(order.price, r.ret),
                book |-> [book EXCEPT !.sell_orders = r.pls]]
  IN id(PriceLevelStore_push_order(book.sell_orders, order))

OrderBook_try_get(book, order_book_id) ==
  IF order_book_id.variant = "BuyId"
  THEN PriceLevelStore_try_get(book.buy_orders, order_book_id.level.price,
                               order_book_id.level.id)
  ELSE PriceLevelStore_try_get(book.sell_orders, order_book_id.level.price,
                               order_book_id.level.id)

OrderBook_remove_order(book, order_book_id) ==
  LET buy(r) == [err |-> r.err, ret |-> r.ret, book |-> [book EXCEPT !.buy_orders = r.pls]]
      sell(r) == [err |-> r.err, ret |-> r.ret, book |-> [book EXCEPT !.sell_orders = r.pls]]
  IN IF order_book_id.variant = "BuyId"
     THEN buy(PriceLevelStore_remove_order(book.buy_orders, order_book_id.level.price,
                                           order_book_id.level.id))
     ELSE sell(PriceLevelStore_remove_order(book.sell_orders, order_book_id.level.price,
                                            order_book_id.level.id))

OrderBook_update_order(book, order_id, order) ==
  LET buy(r) == [ret |-> r.ret, book |-> [book EXCEPT !.buy_orders = r.pls]]
      sell(r) == [ret |-> r.ret, book |-> [book EXCEPT !.sell_orders = r.pls]]
  IN IF order_id.variant = "BuyId"
     THEN buy(PriceLevelStore_update_order(book.buy_orders, order_id.level, order))
     ELSE sell(PriceLevelStore_update_order(book.sell_orders, order_id.level, order))

\* the (OrderBookId, Order) pairs of the orders of the levels, level by level
RECURSIVE wrap_iter(_, _)
wrap_iter(side, levels) ==
  IF levels = <<>> THEN <<>>
  ELSE LET pairs(price, orders) ==
             [i \in 1..Len(orders) |->
                <<IF side = "BUY" THEN buy_id(price, orders[i].order_id)
                                  ELSE sell_id(price, orders[i].order_id),
                  orders[i]>>]
       IN pairs(Head(levels).price, PriceStore_iter(Head(levels)))
          \o wrap_iter(side, Tail(levels))

\* mutant of maker_orders_iter: the bids from the lowest level up
maker_orders_iter_ascending(book, maker_side) ==
  IF maker_side = "BUY" THEN wrap_iter(maker_side, iter_levels(book.buy_orders))
  ELSE wrap_iter(maker_side, iter_levels(book.sell_orders))

\* the resting orders of a side, best price first: bids from the highest
\* level down, asks from the lowest level up
maker_orders_iter(book, maker_side) ==
  IF maker_side = "BUY" THEN wrap_iter(maker_side, iter_levels_rev(book.buy_orders))
  ELSE wrap_iter(maker_side, iter_levels(book.sell_orders))

\* best_buy_price, best_sell_price: the price of the first order that
\* maker_orders_iter yields for the side
best_buy_price(book) ==
  LET it == maker_orders_iter(book, "BUY") IN
  IF it = <<>> THEN None ELSE Some(it[1][2].price)

best_sell_price(book) ==
  LET it == maker_orders_iter(book, "SELL") IN
  IF it = <<>> THEN None ELSE Some(it[1][2].price)

\* ------------------------------------------------------ exchange: matching
\* the loop of fill_order over the makers still to visit; acc holds
\* maker_fills (MakerFill records), taker_fill_status and taker_rem_q
RECURSIVE fill_order_loop(_, _, _, _, _)
fill_order_loop(makers, taker, side, order_type, acc) ==
  IF makers = <<>> THEN acc
  ELSE LET oix == Head(makers)[1]
           order == Head(makers)[2]
       IN IF order_type = "Limit"
             /\ ((side = "BUY" /\ order.price > taker.price)
                 \/ (side = "SELL" /\ order.price < taker.price))
          THEN fill_order_loop(Tail(makers), taker, side, order_type, acc)
          ELSE LET fill_amount == IF order.quantity <= acc.taker_rem_q
                                  THEN order.quantity ELSE acc.taker_rem_q
                   fill_type == IF fill_amount = order.quantity
                                THEN "Complete" ELSE "Partial"
                   maker_fills ==
                     Append(acc.maker_fills,
                            [oix |-> oix, maker_order |-> order, fill_type |-> fill_type,
                             fill_amount |-> fill_amount])
               IN IF acc.taker_rem_q = fill_amount
                  THEN [maker_fills |-> maker_fills, taker_fill_status |-> "Complete",
                        taker_rem_q |-> 0]
                  ELSE fill_order_loop(Tail(makers), taker, side, order_type,
                         [maker_fills |-> maker_fills, taker_fill_status |-> "Partial",
                          taker_rem_q |-> acc.taker_rem_q - fill_amount])

\* mutant of fill_order: the limit of the taker is not looked at
fill_order_any_price(orderbook, taker, side, order_type) ==
  LET pending(acc) ==
        [taker_order |-> taker, maker_fills |-> acc.maker_fills,
         taker_fill_status |-> IF acc.taker_rem_q = taker.quantity
                               THEN "None" ELSE acc.taker_fill_status]
  IN pending(fill_order_loop(
               maker_orders_iter(orderbook, IF side = "BUY" THEN "SELL" ELSE "BUY"),
               taker, side, "Market",
               [maker_fills |-> <<>>, taker_fill_status |-> "None",
                taker_rem_q |-> taker.quantity]))

\* mutant of fill_order: the status the loop left is not reset to None when the
\* taker's quantity was not reduced
fill_order_status_of_loop(orderbook, taker, side, order_type) ==
  LET pending(acc) ==
        [taker_order |-> taker, maker_fills |-> acc.maker_fills,
         taker_fill_status |-> acc.taker_fill_status]
  IN pending(fill_order_loop(
               maker_orders_iter(orderbook, IF side = "BUY" THEN "SELL" ELSE "BUY"),
               taker, side, order_type,
               [maker_fills |-> <<>>, taker_fill_status |-> "None",
                taker_rem_q |-> taker.quantity]))

\* mutant of fill_order: the plan takes no maker
fill_order_plans_nothing(orderbook, taker, side, order_type) ==
  [taker_order |-> taker, maker_fills |-> <<>>, taker_fill_status |-> "None"]

\* fill_order: the PendingFill of the taker against the book, which it reads
\* and does not change
fill_order(orderbook, taker, side, order_type) ==
  LET pending(acc) ==
        [taker_order |-> taker, maker_fills |-> acc.maker_fills,
         taker_fill_status |-> IF acc.taker_rem_q = taker.quantity
                               THEN "None" ELSE acc.taker_fill_status]
  IN pending(fill_order_loop(
               maker_orders_iter(orderbook, IF side = "BUY" THEN "SELL" ELSE "BUY"),
               taker, side, order_type,
               [maker_fills |-> <<>>, taker_fill_status |-> "None",
                taker_rem_q |-> taker.quantity]))

\* mutant of the loop of finalize_matching: a partly filled maker is reported
\* with the quantity it had
RECURSIVE finalize_loop_reports_resting(_, _)
finalize_loop_reports_resting(fills, st) ==
  LET fill == Head(fills)
      complete(r) ==
        IF r.err # "Ok" THEN [st EXCEPT !.err = r.err]
        ELSE IF Unwrap(r.ret) # fill.maker_order THEN [st EXCEPT !.err = "AssertFailed"]
        ELSE IF st.remaining < Unwrap(r.ret).quantity
          THEN [st EXCEPT !.err = "ArithmeticOverflow"]
        ELSE finalize_loop_reports_resting(Tail(fills),
               [st EXCEPT !.book = r.book,
                          !.remaining = st.remaining - Unwrap(r.ret).quantity,
                          !.maker_orders = Append(st.maker_orders, Unwrap(r.ret))])
      updated(maker_order, u) ==
        IF ~IsSome(u.ret) THEN [st EXCEPT !.err = "InvalidIdFailedToUpdate"]
        ELSE finalize_loop_reports_resting(Tail(fills),
               [st EXCEPT !.book = u.book,
                          !.remaining = 0,
                          !.maker_orders = Append(st.maker_orders, fill.maker_order)])
      update(maker_order) ==
        updated(maker_order, OrderBook_update_order(st.book, fill.oix, maker_order))
      partial(g) ==
        IF g.err # "Ok" THEN [st EXCEPT !.err = g.err]
        ELSE IF Unwrap(g.ret) # fill.maker_order THEN [st EXCEPT !.err = "AssertFailed"]
        ELSE IF ~(st.remaining < Unwrap(g.ret).quantity)
          THEN [st EXCEPT !.err = "AssertFailed"]
        ELSE update([Unwrap(g.ret) EXCEPT
                       !.quantity = Unwrap(g.ret).quantity - st.remaining])
  IN IF fills = <<>> \/ st.err # "Ok" THEN st
     ELSE IF fill.fill_type = "Complete"
       THEN complete(OrderBook_remove_order(st.book, fill.oix))
     ELSE IF fill.fill_type = "Partial"
       THEN partial(OrderBook_try_get(st.book, fill.oix))
     ELSE [st EXCEPT !.err = "Unreachable"]

\* the second loop of finalize_matching over the fills still to apply; st holds
\* the book, the remaining taker quantity and the maker orders filled so far.
\* A Complete fill removes the maker order; a Partial fill stores the maker
\* order with what the taker leaves of it and reports what the taker took.
RECURSIVE finalize_loop(_, _)
finalize_loop(fills, st) ==
  LET fill == Head(fills)
      complete(r) ==
        IF r.err # "Ok" THEN [st EXCEPT !.err = r.err]
        ELSE IF Unwrap(r.ret) # fill.maker_order THEN [st EXCEPT !.err = "AssertFailed"]
        ELSE IF st.remaining < Unwrap(r.ret).quantity
          THEN [st EXCEPT !.err = "ArithmeticOverflow"]
        ELSE finalize_loop(Tail(fills),
               [st EXCEPT !.book = r.book,
                          !.remaining = st.remaining - Unwrap(r.ret).quantity,
                          !.maker_orders = Append(st.maker_orders, Unwrap(r.ret))])
      updated(maker_order, u) ==
        IF ~IsSome(u.ret) THEN [st EXCEPT !.err = "InvalidIdFailedToUpdate"]
        ELSE finalize_loop(Tail(fills),
               [st EXCEPT !.book = u.book,
                          !.remaining = 0,
                          !.maker_orders =
                             Append(st.maker_orders,
                                    [fill.maker_order EXCEPT
                                       !.quantity = fill.maker_order.quantity
                                                    - maker_order.quantity])])
      update(maker_order) ==
        updated(maker_order, OrderBook_update_order(st.book, fill.oix, maker_order))
      partial(g) ==
        IF g.err # "Ok" THEN [st EXCEPT !.err = g.err]
        ELSE IF Unwrap(g.ret) # fill.maker_order THEN [st EXCEPT !.err = "AssertFailed"]
        ELSE IF ~(st.remaining < Unwrap(g.ret).quantity)
          THEN [st EXCEPT !.err = "AssertFailed"]
        ELSE update([Unwrap(g.ret) EXCEPT
                       !.quantity = Unwrap(g.ret).quantity - st.remaining])
  IN IF fills = <<>> \/ st.err # "Ok" THEN st
     ELSE IF fill.fill_type = "Complete"
       THEN complete(OrderBook_remove_order(st.book, fill.oix))
     ELSE IF fill.fill_type = "Partial"
       THEN partial(OrderBook_try_get(st.book, fill.oix))
     ELSE [st EXCEPT !.err = "Unreachable"]

\* finalize_matching: Result<(FillStatus, Option<NewOrder>, Vec<Order>), Error>
\* and the book after the call
finalize_matching(order_book, pending_fill) ==
  LET status == pending_fill.taker_fill_status
      failed(code) == [err |-> code, status |-> status, taker_order |-> None,
                       maker_orders |-> <<>>, book |-> order_book]
      status_ok(remaining) ==
        IF status = "Complete" THEN remaining = 0
        ELSE IF status = "Partial" THEN pending_fill.taker_order.quantity > remaining
        ELSE remaining = pending_fill.taker_order.quantity
      taker(st) ==
        IF st.err # "Ok" THEN failed(st.err)
        ELSE IF ~status_ok(st.remaining) THEN failed("AssertFailed")
        ELSE [err |-> "Ok", status |-> status,
              taker_order |-> IF st.remaining > 0
                              THEN Some([pending_fill.taker_order EXCEPT
                                           !.quantity = st.remaining])
                              ELSE None,
              maker_orders |-> st.maker_orders, book |-> st.book]
  IN IF \E i \in 1..Len(pending_fill.maker_fills) :
          OrderBook_try_get(order_book, pending_fill.maker_fills[i].oix).err # "Ok"
     THEN failed("InvalidOrderId")
     ELSE taker(finalize_loop(pending_fill.maker_fills,
                  [err |-> "Ok", book |-> order_book,
                   remaining |-> pending_fill.taker_order.quantity,
                   maker_orders |-> <<>>]))

\* mutant of place_order: what is left of a Market taker is dropped
place_order_market_dropped(order_book, order_type, side, order, account) ==
  LET added(f, a) ==
        [err |-> "Ok", taker_order |-> Some(<<a.ret, Unwrap(f.taker_order)>>),
         maker_orders |-> f.maker_orders, book |-> a.book]
      rest(f) ==
        IF f.err # "Ok"
        THEN [err |-> f.err, taker_order |-> None, maker_orders |-> <<>>, book |-> f.book]
        ELSE IF IsSome(f.taker_order) /\ order_type = "Limit"
          THEN added(f, IF side = "BUY"
                        THEN add_buy_order(f.book,
                               NewOrder_into_order(Unwrap(f.taker_order), account))
                        ELSE add_sell_order(f.book,
                               NewOrder_into_order(Unwrap(f.taker_order), account)))
        ELSE [err |-> "Ok", taker_order |-> None, maker_orders |-> f.maker_orders,
              book |-> f.book]
  IN rest(finalize_matching(order_book, fill_order(order_book, order, side, order_type)))

\* mutant of place_order: the taker rests with the quantity it asked for
place_order_full_quantity(order_book, order_type, side, order, account) ==
  LET added(f, a) ==
        [err |-> "Ok", taker_order |-> Some(<<a.ret, Unwrap(f.taker_order)>>),
         maker_orders |-> f.maker_orders, book |-> a.book]
      rest(f) ==
        IF f.err # "Ok"
        THEN [err |-> f.err, taker_order |-> None, maker_orders |-> <<>>, book |-> f.book]
        ELSE IF IsSome(f.taker_order)
          THEN added(f, IF side = "BUY"
                        THEN add_buy_order(f.book, NewOrder_into_order(order, account))
                        ELSE add_sell_order(f.book, NewOrder_into_order(order, account)))
        ELSE [err |-> "Ok", taker_order |-> None, maker_orders |-> f.maker_orders,
              book |-> f.book]
  IN rest(finalize_matching(order_book, fill_order(order_book, order, side, order_type)))

\* place_order: Result<(Option<(OrderBookId, NewOrder)>, Vec<Order>), Error> and
\* the book after the call; what is left of the taker rests in the book
place_order(order_book, order_type, side, order, account) ==
  LET added(f, a) ==
        [err |-> "Ok", taker_order |-> Some(<<a.ret, Unwrap(f.taker_order)>>),
         maker_orders |-> f.maker_orders, book |-> a.book]
      rest(f) ==
        IF f.err # "Ok"
        THEN [err |-> f.err, taker_order |-> None, maker_orders |-> <<>>, book |-> f.book]
        ELSE IF IsSome(f.taker_order)
          THEN added(f, IF side = "BUY"
                        THEN add_buy_order(f.book,
                               NewOrder_into_order(Unwrap(f.taker_order), account))
                        ELSE add_sell_order(f.book,
                               NewOrder_into_order(Unwrap(f.taker_order), account)))
        ELSE [err |-> "Ok", taker_order |-> None, maker_orders |-> f.maker_orders,
              book |-> f.book]
  IN rest(finalize_matching(order_book, fill_order(order_book, order, side, order_type)))

\* ------------------------------------------------------ exchange: balances
\* the exchange's UserBalances
TradingBalances(b, t) == [balance |-> b, balance_in_trading |-> t]

\* a missing entry reads as (0, 0): every entry starts as (0, 0)
orderbook_read_user_balance(e, user, token) == e.trading_balance[<<user, token>>]

orderbook_write_user_balance(e, user, token, balances) ==
  [e EXCEPT !.trading_balance[<<user, token>>] = balances]

\* `x as i128` of a u128 x: the same bits read as two's complement, never an error
as_i128(x) == IF x >= 2 ^ (WordBits - 1) THEN x - 2 ^ WordBits ELSE x

\* (price * quantity) as i128 / 10_i128.pow(decimals): the u128 product wraps
\* (a build with overflow checks panics instead, see create_order and
\* cancel_order), the cast keeps the bits, and i128 division truncates toward 0
multiply_price_and_quantity(price, quantity, dec) ==
  LET product == as_i128((price * quantity) % (2 ^ WordBits))
  IN IF product < 0 THEN 0 - ((0 - product) \div (10 ^ dec)) ELSE product \div (10 ^ dec)

return_quantity(price, quantity, dec) == as_i128(quantity)

\* PayOffWithSides::create: the taker of a BUY pays quote (token2) and receives
\* base (token1), the taker of a SELL pays base and receives quote; "mul" is
\* multiply_price_and_quantity and "qty" is return_quantity
PayOffWithSides_create(side, trading_pair, base_token_decimals) ==
  IF side = "BUY"
  THEN [token_to_withdraw |-> trading_pair[2], token_to_receive |-> trading_pair[1],
        withdraw_calculation_func |-> "mul", receive_calculation_func |-> "qty",
        base_token_decimals |-> base_token_decimals]
  ELSE [token_to_withdraw |-> trading_pair[1], token_to_receive |-> trading_pair[2],
        withdraw_calculation_func |-> "qty", receive_calculation_func |-> "mul",
        base_token_decimals |-> base_token_decimals]

\* a call through one of the two function pointers of PayOffWithSides
calculation_func(f, price, quantity, dec) ==
  IF f = "mul" THEN multiply_price_and_quantity(price, quantity, dec)
  ELSE return_quantity(price, quantity, dec)

taker_withdraw_token(p) == p.token_to_withdraw
taker_receive_token(p) == p.token_to_receive
maker_withdraw_token(p) == p.token_to_receive
maker_receive_token(p) == p.token_to_withdraw

taker_withdraw_amount(p, price, quantity) ==
  calculation_func(p.withdraw_calculation_func, price, quantity, p.base_token_decimals)

maker_withdraw_amount(p, price, quantity) ==
  calculation_func(p.receive_calculation_func, price, quantity, p.base_token_decimals)

taker_receive_amount(p, price, quantity) ==
  calculation_func(p.receive_calculation_func, price, quantity, p.base_token_decimals)

maker_receive_amount(p, price, quantity) ==
  calculation_func(p.withdraw_calculation_func, price, quantity, p.base_token_decimals)

\* each maker gives up its reservation and is credited what it receives
RECURSIVE pay_off_with_makers(_, _, _)
pay_off_with_makers(e, pay_off_with_sides, maker_orders) ==
  IF maker_orders = <<>> THEN e
  ELSE LET order == Head(maker_orders)
           withdraw_balances ==
             orderbook_read_user_balance(e, order.account,
                                         maker_withdraw_token(pay_off_with_sides))
           withdraw_amount ==
             maker_withdraw_amount(pay_off_with_sides, order.price, order.quantity)
           e1 == orderbook_write_user_balance(e, order.account,
                   maker_withdraw_token(pay_off_with_sides),
                   [withdraw_balances EXCEPT !.balance_in_trading = @ - withdraw_amount])
           receiving_balances ==
             orderbook_read_user_balance(e1, order.account,
                                         maker_receive_token(pay_off_with_sides))
           receive_amount ==
             maker_receive_amount(pay_off_with_sides, order.price, order.quantity)
           e2 == orderbook_write_user_balance(e1, order.account,
                   maker_receive_token(pay_off_with_sides),
                   [receiving_balances EXCEPT !.balance = @ + receive_amount])
       IN pay_off_with_makers(e2, pay_off_with_sides, Tail(maker_orders))

\* -------------------------------------------------- exchange: entry points
\* the private create_order: it returns the placed order's id (buy_id(0, 0)
\* when nothing rests), the maker orders filled, and the Env and book after it.
\* The taker's receive balance is credited and written; its withdraw balance is
\* debited by what the fills cost, what is not filled moves from balance to
\* balance_in_trading, and it is written; then the makers are paid.
create_order(e, order_book, pay_off_with_sides, order, user, order_type, side) ==
  LET sum(maker_orders, amount(_)) ==
        LET F[i \in 0..Len(maker_orders)] ==
              IF i = 0 THEN 0 ELSE F[i - 1] + amount(maker_orders[i])
        IN F[Len(maker_orders)]
      quantity(o) == o.quantity
      withdraw(o) == taker_withdraw_amount(pay_off_with_sides, o.price, o.quantity)
      receive(o) == taker_receive_amount(pay_off_with_sides, o.price, o.quantity)
      taker(total_filled_quantity, total_withdraw_amount, total_receive_amount) ==
        LET withdraw_balances ==
              orderbook_read_user_balance(e, user, taker_withdraw_token(pay_off_with_sides))
            withdrawn == [withdraw_balances EXCEPT !.balance = @ - total_withdraw_amount]
            receiving_balances ==
              orderbook_read_user_balance(e, user, taker_receive_token(pay_off_with_sides))
            e1 == orderbook_write_user_balance(e, user,
                    taker_receive_token(pay_off_with_sides),
                    [receiving_balances EXCEPT !.balance = @ + total_receive_amount])
            not_filled_withdraw_amount ==
              taker_withdraw_amount(pay_off_with_sides, order.price,
                                    order.quantity - total_filled_quantity)
        IN orderbook_write_user_balance(e1, user, taker_withdraw_token(pay_off_with_sides),
             IF total_filled_quantity < order.quantity
             THEN [withdrawn EXCEPT !.balance = @ - not_filled_withdraw_amount,
                                    !.balance_in_trading = @ + not_filled_withdraw_amount]
             ELSE withdrawn)
      overflows(price, amount) == price * amount >= 2 ^ WordBits
      multiplied(maker_orders) ==
        {<<maker_orders[i].price, maker_orders[i].quantity>> : i \in 1..Len(maker_orders)}
          \cup (IF sum(maker_orders, quantity) < order.quantity
                   /\ pay_off_with_sides.withdraw_calculation_func = "mul"
                THEN {<<order.price, order.quantity - sum(maker_orders, quantity)>>}
                ELSE {})
      placed(p) ==
        IF p.err # "Ok" THEN [err |-> p.err, e |-> e, book |-> p.book, ret |-> <<>>]
        ELSE IF overflow_checks /\ \E m \in multiplied(p.maker_orders) : overflows(m[1], m[2])
        THEN [err |-> "ArithmeticOverflow", e |-> e, book |-> p.book, ret |-> <<>>]
        ELSE [err |-> "Ok",
              e |-> pay_off_with_makers(
                      taker(sum(p.maker_orders, quantity), sum(p.maker_orders, withdraw),
                            sum(p.maker_orders, receive)),
                      pay_off_with_sides, p.maker_orders),
              book |-> p.book,
              ret |-> <<IF IsSome(p.taker_order) THEN Unwrap(p.taker_order)[1]
                        ELSE buy_id(0, 0),
                        p.maker_orders>>]
  IN placed(place_order(order_book, order_type, side, order, user))

\* initialize(token_pairs): no authorization; every pair gets an empty book
RECURSIVE orderbook_initialize(_, _)
orderbook_initialize(e, token_pairs) ==
  IF token_pairs = <<>> THEN Ok(e)
  ELSE orderbook_initialize([e EXCEPT !.order_book_store[Head(token_pairs)] =
                                         Some(OrderBook_new)],
                            Tail(token_pairs))

\* Contract::create_order: the book is stored and the result returned; an Err
\* aborts the invocation
orderbook_create_order(e, auth, trading_pair, order_type, side, order, user) ==
  LET stored(res) ==
        IF res.err # "Ok" THEN Panic(e, res.err)
        ELSE OkRet([res.e EXCEPT !.order_book_store[trading_pair] = Some(res.book)],
                   res.ret)
  IN IF ~auth THEN Panic(e, "AuthFailed")
     ELSE IF ~IsSome(e.order_book_store[trading_pair]) THEN Panic(e, "UnwrapNone")
     ELSE stored(create_order(e, Unwrap(e.order_book_store[trading_pair]),
                   PayOffWithSides_create(side, trading_pair, decimals(trading_pair[1])),
                   order, user, order_type, side))

\* mutant of cancel_order: the reservation is credited and not released
orderbook_cancel_order_no_release(e, auth, trading_pair, order_id, user) ==
  LET removed(res) ==
        IF res.err # "Ok" THEN Panic(e, res.err)
        ELSE LET order == Unwrap(res.ret)
                 token_to_return == IF order_id.variant = "BuyId"
                                    THEN trading_pair[2] ELSE trading_pair[1]
                 balances == orderbook_read_user_balance(e, user, token_to_return)
                 token_decimals_to_receive == decimals(trading_pair[1])
                 token_trading_amount ==
                   IF order_id.variant = "BuyId"
                   THEN multiply_price_and_quantity(order.price, order.quantity,
                                                    token_decimals_to_receive)
                   ELSE return_quantity(order.price, order.quantity,
                                        token_decimals_to_receive)
                 e1 == orderbook_write_user_balance(e, user, token_to_return,
                         [balances EXCEPT !.balance = @ + token_trading_amount])
             IN OkRet([e1 EXCEPT !.order_book_store[trading_pair] = Some(res.book)], order)
  IN IF ~auth THEN Panic(e, "AuthFailed")
     ELSE IF ~IsSome(e.order_book_store[trading_pair]) THEN Panic(e, "UnwrapNone")
     ELSE removed(OrderBook_remove_order(Unwrap(e.order_book_store[trading_pair]),
                                         order_id))

\* Contract::cancel_order: the refund of the removed order goes to `user`, the
\* caller; in a build with overflow checks an overflowing product panics
orderbook_cancel_order(e, auth, trading_pair, order_id, user) ==
  LET removed(res) ==
        IF res.err # "Ok" THEN Panic(e, res.err)
        ELSE LET order == Unwrap(res.ret)
                 token_to_return == IF order_id.variant = "BuyId"
                                    THEN trading_pair[2] ELSE trading_pair[1]
                 balances == orderbook_read_user_balance(e, user, token_to_return)
                 token_decimals_to_receive == decimals(trading_pair[1])
                 token_trading_amount ==
                   IF order_id.variant = "BuyId"
                   THEN multiply_price_and_quantity(order.price, order.quantity,
                                                    token_decimals_to_receive)
                   ELSE return_quantity(order.price, order.quantity,
                                        token_decimals_to_receive)
                 e1 == orderbook_write_user_balance(e, user, token_to_return,
                         [balances EXCEPT !.balance = @ + token_trading_amount,
                                          !.balance_in_trading = @ - token_trading_amount])
             IN IF overflow_checks /\ order_id.variant = "BuyId"
                   /\ order.price * order.quantity >= 2 ^ WordBits
                THEN Panic(e, "ArithmeticOverflow")
                ELSE OkRet([e1 EXCEPT !.order_book_store[trading_pair] = Some(res.book)], order)
  IN IF ~auth THEN Panic(e, "AuthFailed")
     ELSE IF ~IsSome(e.order_book_store[trading_pair]) THEN Panic(e, "UnwrapNone")
     ELSE removed(OrderBook_remove_order(Unwrap(e.order_book_store[trading_pair]),
                                         order_id))

\* Contract::deposit
orderbook_deposit(e, auth, user, token, amount) ==
  IF ~auth THEN Panic(e, "AuthFailed")
  ELSE IF ~(amount > 0) THEN Panic(e, "AmountMustBePositive")
  ELSE LET t == token_transfer(e, token, user, ExchangeContract, amount) IN
       IF t.err # "Ok" THEN Panic(e, t.err)
       ELSE LET balances == orderbook_read_user_balance(t.e, user, token) IN
            Ok(orderbook_write_user_balance(t.e, user, token,
                 [balances EXCEPT !.balance = @ + amount]))

\* mutant of withdraw: the reserved balance counts as spendable
orderbook_withdraw_from_reserved(e, auth, user, token, amount) ==
  IF ~auth THEN Panic(e, "AuthFailed")
  ELSE IF ~(amount > 0) THEN Panic(e, "AmountMustBePositive")
  ELSE LET balances == orderbook_read_user_balance(e, user, token) IN
       IF ~(balances.balance + balances.balance_in_trading >= amount)
       THEN Panic(e, "BalanceNotEnough")
       ELSE LET e1 == orderbook_write_user_balance(e, user, token,
                        [balances EXCEPT !.balance = @ - amount])
                t == token_transfer(e1, token, ExchangeContract, user, amount)
            IN IF t.err # "Ok" THEN Panic(e, t.err) ELSE Ok(t.e)

\* Contract::withdraw
orderbook_withdraw(e, auth, user, token, amount) ==
  IF ~auth THEN Panic(e, "AuthFailed")
  ELSE IF ~(amount > 0) THEN Panic(e, "AmountMustBePositive")
  ELSE LET balances == orderbook_read_user_balance(e, user, token) IN
       IF ~(balances.balance >= amount) THEN Panic(e, "BalanceNotEnough")
       ELSE LET e1 == orderbook_write_user_balance(e, user, token,
                        [balances EXCEPT !.balance = @ - amount])
                t == token_transfer(e1, token, ExchangeContract, user, amount)
            IN IF t.err # "Ok" THEN Panic(e, t.err) ELSE Ok(t.e)

\* Contract::balances
orderbook_balances(e, user, token) == orderbook_read_user_balance(e, user, token)

\* ------------------------------------------------------------------ inputs
ListingStatuses == {"Listed", "Delisted"}
\* amounts passed to deposit, request_withdraw and ExecuteWithdraw (i128)
Amounts == -1..MaxAmount
\* quantity / amount / fee_amount of a trade unit (i128)
TradeAmounts == -1..MaxTradeAmount

TradeUploadUnit(account, symbol, quantity, amount, fee_amount, fee_token_asset, signer, signed, pub_key_id) ==
  [trade_id |-> 0, account |-> account, symbol |-> symbol, quantity |-> quantity,
   amount |-> amount, fee_amount |-> fee_amount, fee_token_asset |-> fee_token_asset,
   timestamp |-> 0, order_signature |-> Signature(signer, signed),
   pub_key_id |-> pub_key_id, order |-> "o1"]

\* the key pair a user holds off-chain
KeyOf(user) == IF user = "u1" THEN "k1" ELSE "k2"

\* a unit of a matched trade of 1 token1 for 1 token2 on symbol A, without fee,
\* signed by its account
PlainUnit(account) ==
  TradeUploadUnit(account, "A", 1, 1, 0, "t1", KeyOf(account), "o1", 1)

\* the units that differ from a plain unit in at most one respect
OneOffUnits(account) ==
  {PlainUnit(account)}
  \cup {[PlainUnit(account) EXCEPT !.account = a] : a \in Users}
  \cup {[PlainUnit(account) EXCEPT !.symbol = s] : s \in Symbols}
  \cup {[PlainUnit(account) EXCEPT !.quantity = q] : q \in TradeAmounts}
  \cup {[PlainUnit(account) EXCEPT !.amount = q] : q \in TradeAmounts}
  \cup {[PlainUnit(account) EXCEPT !.fee_amount = f, !.fee_token_asset = t] :
          f \in TradeAmounts, t \in Tokens}
  \cup {[PlainUnit(account) EXCEPT !.order_signature = Signature(k, o)] :
          k \in PubKeys, o \in Orders}

TradeUploadPair(buy_side, sell_side) == [buy_side |-> buy_side, sell_side |-> sell_side]

PlainPair == TradeUploadPair(PlainUnit("u2"), PlainUnit("u1"))

\* the pairs explored: u2 buys from u1, one side differing from the plain trade
\* in at most one respect
TradePairs ==
  {TradeUploadPair(b, PlainUnit("u1")) : b \in OneOffUnits("u2")}
  \cup {TradeUploadPair(PlainUnit("u2"), s) : s \in OneOffUnits("u1")}

\* the batches explored: empty, one pair, or a plain pair followed by another pair
TradeLists ==
  {<<>>} \cup {<<p>> : p \in TradePairs} \cup {<<PlainPair, p>> : p \in TradePairs}

TradeUploadDatas ==
  {[batch_id |-> b, trades |-> t] : b \in 1..(MaxBatchId + 1), t \in TradeLists}

ExecutionWithdrawDatas ==
  [id : WithdrawIds, user : Accounts, token : Tokens, amount : 1..(MaxAmount + 1),
   execution_status : {"Approve", "Reject"}]

ValidateUserSignatureDatas ==
  [user : Users, key_id : KeyIds, message : Orders,
   signature : {Signature(k, o) : k \in PubKeys, o \in Orders}]

OperatorAction(kind, data) == [kind |-> kind, data |-> data]

\* every call the operator manager authorised, and one it did not
Calls(datas) == {<<TRUE, d>> : d \in datas} \cup {<<FALSE, CHOOSE d \in datas : TRUE>>}

\* ----------------------------------------------------------------- actions
\* the AssetManager contract as deployed: nothing is stored
AssetManagerInit ==
  /\ Owner = None
  /\ OperatorManager = None
  /\ FeeCollector = None
  /\ WithdrawId = None
  /\ BatchId = None
  /\ token_status = [t \in Tokens |-> None]
  /\ pair_info = [s \in Symbols |-> None]
  /\ public_key = [k \in Users \X KeyIds |-> None]
  /\ user_balance = [k \in Accounts \X Tokens |-> UserBalances(0, 0)]
  /\ withdraw_request = [i \in WithdrawIds |-> None]
  /\ returned_ids = <<>>
  /\ processed = <<>>

\* the exchange contract as deployed: no book, no balance
ExchangeInit ==
  /\ order_book_store = [p \in TradingPairs \cup SamePairs |-> None]
  /\ trading_balance = [k \in Users \X Tokens |-> TradingBalances(0, 0)]
  /\ created = 0

\* no product of the orders explored from Init reaches 2^WordBits, so that the
\* build makes no difference there; OverflowInit draws it
Init ==
  /\ AssetManagerInit
  /\ ExchangeInit
  /\ ledger = [t \in Tokens |-> [h \in Holders |->
                 IF (h = "u1" /\ t = "t1") \/ (h = "u2" /\ t = "t2")
                 THEN InitialHolding ELSE 0]]
  /\ overflow_checks = FALSE

\* the host commits the writes of an invocation that returned and discards those
\* of one that panicked (r.e is then the Env the invocation started from)
Commit(r) ==
  /\ Owner' = r.e.Owner
  /\ OperatorManager' = r.e.OperatorManager
  /\ FeeCollector' = r.e.FeeCollector
  /\ WithdrawId' = r.e.WithdrawId
  /\ BatchId' = r.e.BatchId
  /\ token_status' = r.e.token_status
  /\ pair_info' = r.e.pair_info
  /\ public_key' = r.e.public_key
  /\ user_balance' = r.e.user_balance
  /\ withdraw_request' = r.e.withdraw_request
  /\ ledger' = r.e.ledger
  /\ UNCHANGED exchange_vars

Initialize ==
  \E owner \in Owners, operator_manager \in Operators, fee_collector \in FeeCollectors :
    /\ Commit(initialize(Env, owner, operator_manager, fee_collector))
    /\ UNCHANGED <<returned_ids, processed>>

SetTokenStatus ==
  \E auth \in BOOLEAN, token \in Tokens, status \in ListingStatuses :
    /\ Commit(set_token_status(Env, auth, token, status))
    /\ UNCHANGED <<returned_ids, processed>>

SetPairStatus ==
  \E auth \in BOOLEAN, symbol \in {"A"}, token1 \in Tokens, token2 \in Tokens,
     status \in ListingStatuses :
    /\ Commit(set_pair_status(Env, auth, symbol, token1, token2, status))
    /\ UNCHANGED <<returned_ids, processed>>

Deposit ==
  \E auth \in BOOLEAN, user \in Users, token \in Tokens, amount \in Amounts :
    /\ Commit(deposit(Env, auth, user, token, amount))
    /\ UNCHANGED <<returned_ids, processed>>

RequestWithdraw ==
  \E auth \in BOOLEAN, user \in Accounts, token \in Tokens, amount \in Amounts :
    /\ IsSome(WithdrawId) => Unwrap(WithdrawId) <= MaxWithdrawId
    /\ LET r == request_withdraw(Env, auth, user, token, amount) IN
       /\ Commit(r)
       /\ returned_ids' = IF r.err = "Ok" THEN Append(returned_ids, r.ret) ELSE returned_ids
    /\ UNCHANGED processed

\* each user announces the key it holds
UserAnnounceKey ==
  \E auth \in BOOLEAN, user \in Users, key_id \in KeyIds :
    /\ Commit(user_announce_key(Env, auth, user, key_id, KeyOf(user)))
    /\ UNCHANGED <<returned_ids, processed>>

ValidateUserSignature ==
  \E c \in Calls(ValidateUserSignatureDatas) :
    /\ Commit(execute_action(Env, c[1], OperatorAction("ValidateUserSignature", c[2])))
    /\ UNCHANGED <<returned_ids, processed>>

ExecuteWithdraw ==
  \E c \in Calls(ExecutionWithdrawDatas) :
    /\ Commit(execute_action(Env, c[1], OperatorAction("ExecuteWithdraw", c[2])))
    /\ UNCHANGED <<returned_ids, processed>>

TradeUpload ==
  \E c \in Calls(TradeUploadDatas) :
    /\ IsSome(BatchId) => Unwrap(BatchId) <= MaxBatchId
    /\ LET r == execute_action(Env, c[1], OperatorAction("TradeUpload", c[2])) IN
       /\ Commit(r)
       /\ processed' = IF r.err = "Ok" THEN Append(processed, c[2].batch_id) ELSE processed
    /\ UNCHANGED returned_ids

Next ==
  \/ Initialize
  \/ SetTokenStatus
  \/ SetPairStatus
  \/ Deposit
  \/ RequestWithdraw
  \/ UserAnnounceKey
  \/ ValidateUserSignature
  \/ ExecuteWithdraw
  \/ TradeUpload

Spec == Init /\ [][Next]_vars

\* -------------------------------------------------------- exchange: inputs
Prices == {5, 10}
Quantities == 1..MaxQuantity
NewOrders == {NewOrder(q, p, 0, "t1") : q \in Quantities, p \in Prices}
OrderBookIds ==
  {buy_id(p, i) : p \in Prices, i \in 1..MaxCreated}
    \cup {sell_id(p, i) : p \in Prices, i \in 1..MaxCreated}

\* the arguments of the exchange's deposit and withdraw, of create_order and of
\* cancel_order
TransferInputs == [user : Users, token : Tokens, amount : Amounts]
CreateOrderInputs ==
  [trading_pair : TradingPairs, order_type : {"Limit", "Market"}, side : {"BUY", "SELL"},
   order : NewOrders, user : Users]
CancelOrderInputs == [trading_pair : TradingPairs, order_id : OrderBookIds, user : Users]

\* -------------------------------------------------------- exchange: actions
\* The exchange's storage and the token ledger as one value
ExchangeEnv ==
  [order_book_store |-> order_book_store, trading_balance |-> trading_balance,
   ledger |-> ledger]

ExchangeCommit(r) ==
  /\ order_book_store' = r.e.order_book_store
  /\ trading_balance' = r.e.trading_balance
  /\ ledger' = r.e.ledger
  /\ UNCHANGED <<asset_manager_vars, overflow_checks>>

ExchangeInitialize ==
  \E token_pairs \in {<<p>> : p \in TradingPairs} :
    /\ ExchangeCommit(orderbook_initialize(ExchangeEnv, token_pairs))
    /\ UNCHANGED created

ExchangeDeposit ==
  \E c \in Calls(TransferInputs) :
    /\ ExchangeCommit(orderbook_deposit(ExchangeEnv, c[1], c[2].user, c[2].token,
                                        c[2].amount))
    /\ UNCHANGED created

ExchangeWithdraw ==
  \E c \in Calls(TransferInputs) :
    /\ ExchangeCommit(orderbook_withdraw(ExchangeEnv, c[1], c[2].user, c[2].token,
                                         c[2].amount))
    /\ UNCHANGED created

CreateOrder ==
  \E c \in Calls(CreateOrderInputs) :
    /\ created < MaxCreated
    /\ LET r == orderbook_create_order(ExchangeEnv, c[1], c[2].trading_pair,
                                       c[2].order_type, c[2].side, c[2].order, c[2].user) IN
       /\ ExchangeCommit(r)
       /\ created' = IF r.err = "Ok" THEN created + 1 ELSE created

CancelOrder ==
  \E c \in Calls(CancelOrderInputs) :
    /\ ExchangeCommit(orderbook_cancel_order(ExchangeEnv, c[1], c[2].trading_pair,
                                             c[2].order_id, c[2].user))
    /\ UNCHANGED created

ExchangeNext ==
  \/ ExchangeInitialize
  \/ ExchangeDeposit
  \/ ExchangeWithdraw
  \/ CreateOrder
  \/ CancelOrder

\* the exchange contract alone
ExchangeSpec == Init /\ [][ExchangeNext]_vars

\* the exchange as deployed by either build: with overflow checks a u128 product
\* that does not fit panics, without them it wraps
OverflowInit ==
  /\ AssetManagerInit
  /\ ExchangeInit
  /\ ledger = [t \in Tokens |-> [h \in Holders |->
                 IF (h = "u1" /\ t = "t1") \/ (h = "u2" /\ t = "t2")
                 THEN InitialHolding ELSE 0]]
  /\ overflow_checks \in BOOLEAN

OverflowSpec == OverflowInit /\ [][ExchangeNext]_vars

\* ----------------------------------------------------- exchange: the book
\* The matching engine alone: a book is created empty, place_order and
\* remove_order are what changes it (create_order and cancel_order change the
\* stored book through them and through nothing else).
Takers ==
  [order_type : {"Limit", "Market"}, side : {"BUY", "SELL"}, order : NewOrders,
   account : Users]

PlaceOrder ==
  \E pair \in TradingPairs : \E t \in Takers :
    /\ created < MaxCreated
    /\ IsSome(order_book_store[pair])
    /\ LET p == place_order(Unwrap(order_book_store[pair]), t.order_type, t.side, t.order,
                            t.account) IN
       /\ p.err = "Ok"
       /\ order_book_store' = [order_book_store EXCEPT ![pair] = Some(p.book)]
    /\ created' = created + 1
    /\ UNCHANGED <<asset_manager_vars, trading_balance, ledger, overflow_checks>>

RemoveOrder ==
  \E pair \in TradingPairs : \E order_book_id \in OrderBookIds :
    /\ IsSome(order_book_store[pair])
    /\ LET r == OrderBook_remove_order(Unwrap(order_book_store[pair]), order_book_id) IN
       /\ r.err = "Ok"
       /\ order_book_store' = [order_book_store EXCEPT ![pair] = Some(r.book)]
    /\ UNCHANGED <<asset_manager_vars, trading_balance, ledger, created, overflow_checks>>

BookNext ==
  \/ ExchangeInitialize
  \/ PlaceOrder
  \/ RemoveOrder

BookSpec == Init /\ [][BookNext]_vars

\* ------------------------------------------- exchange: a pair of one token
\* The exchange when the pair it is initialized with names one token twice
SamePairInitialize ==
  \E token_pairs \in {<<p>> : p \in SamePairs} :
    /\ ExchangeCommit(orderbook_initialize(ExchangeEnv, token_pairs))
    /\ UNCHANGED created

SamePairCreateOrder ==
  \E c \in Calls([trading_pair : SamePairs, order_type : {"Limit", "Market"},
                  side : {"BUY", "SELL"}, order : NewOrders, user : Users]) :
    /\ created < MaxCreated
    /\ LET r == orderbook_create_order(ExchangeEnv, c[1], c[2].trading_pair,
                                       c[2].order_type, c[2].side, c[2].order, c[2].user) IN
       /\ ExchangeCommit(r)
       /\ created' = IF r.err = "Ok" THEN created + 1 ELSE created

SamePairCancelOrder ==
  \E c \in Calls([trading_pair : SamePairs, order_id : OrderBookIds, user : Users]) :
    /\ ExchangeCommit(orderbook_cancel_order(ExchangeEnv, c[1], c[2].trading_pair,
                                             c[2].order_id, c[2].user))
    /\ UNCHANGED created

SamePairNext ==
  \/ SamePairInitialize
  \/ ExchangeDeposit
  \/ ExchangeWithdraw
  \/ SamePairCreateOrder
  \/ SamePairCancelOrder

SamePairSpec == Init /\ [][SamePairNext]_vars

\* The two contracts are separate deployments that share nothing but the token
\* contracts, and neither calls the other: a run of both is explored one
\* contract at a time, each from the state in which the other was deployed and
\* holds no token.
AssetManagerUntouched == AssetManagerInit /\ \A t \in Tokens : ledger[t][Contract] = 0
ExchangeUntouched == ExchangeInit /\ \A t \in Tokens : ledger[t][ExchangeContract] = 0

AssetManagerStep == ExchangeUntouched /\ Next
ExchangeStep == AssetManagerUntouched /\ ExchangeNext

ContractsNext ==
  \/ AssetManagerStep
  \/ ExchangeStep

ContractsSpec == Init /\ [][ContractsNext]_vars

\* ------------------------------------------------------------ properties
\* the outcome, in the current state, of an authorised execute_action
ExecuteWithdrawOutcome(d) == execute_action(Env, TRUE, OperatorAction("ExecuteWithdraw", d))
TradeUploadOutcome(d) == execute_action(Env, TRUE, OperatorAction("TradeUpload", d))

Balance(e, account, token) == e.user_balance[<<account, token>>].balance
OnWithdraw(e, account, token) == e.user_balance[<<account, token>>].balance_on_withdraw

Decided(w) == IsSome(w) /\ Unwrap(w).status \in {"Executed", "Rejected"}

\* C2 (state part): an ExecuteWithdraw for a decided record aborts with
\* ErrWithdrawRequestAlreadyProcessed, whatever its user, token, amount and
\* decision, and changes nothing.
C2_DecidedRejectsExecute ==
  \A d \in ExecutionWithdrawDatas :
    Decided(withdraw_request[d.id]) =>
      LET r == ExecuteWithdrawOutcome(d) IN
      r.err = "ErrWithdrawRequestAlreadyProcessed" /\ r.e = Env

\* C2 (step part): no step changes a decided record, and no step both pays out
\* and refunds: a record that gets decided was Requested.
C2_DecidedIsFinal ==
  \A id \in WithdrawIds :
    /\ Decided(withdraw_request[id]) => withdraw_request'[id] = withdraw_request[id]
    /\ (Decided(withdraw_request'[id]) /\ ~Decided(withdraw_request[id])) =>
         /\ IsSome(withdraw_request[id])
         /\ Unwrap(withdraw_request[id]).status = "Requested"

\* C2: a withdraw record is decided at most once: once Executed or Rejected, every
\* later ExecuteWithdraw for its id aborts with ErrWithdrawRequestAlreadyProcessed
\* and changes neither the record nor any balance.
C2_DecidedAtMostOnce == [] C2_DecidedRejectsExecute /\ [][C2_DecidedIsFinal]_vars

\* a record was approved and paid out, and rejecting it now is refused
C2_Witness ==
  \E d \in ExecutionWithdrawDatas :
    /\ IsSome(withdraw_request[d.id])
    /\ Unwrap(withdraw_request[d.id]).status = "Executed"
    /\ Unwrap(withdraw_request[d.id]).user = d.user
    /\ Unwrap(withdraw_request[d.id]).token = d.token
    /\ Unwrap(withdraw_request[d.id]).amount = d.amount
    /\ d.execution_status = "Reject"
    /\ ledger[d.token][d.user] = InitialHolding
    /\ ExecuteWithdrawOutcome(d).err = "ErrWithdrawRequestAlreadyProcessed"

\* C3: a TradeUpload whose batch_id differs from the stored BatchId aborts with
\* ErrBatchIdNotMatch and changes nothing; a successful one increments BatchId by
\* exactly 1; the ids of the processed batches are 1, 2, 3, ... in this order.
C3_BatchesInSequence ==
  /\ \A d \in TradeUploadDatas :
       IsSome(BatchId) =>
         LET r == TradeUploadOutcome(d) IN
         /\ d.batch_id # Unwrap(BatchId) => (r.err = "ErrBatchIdNotMatch" /\ r.e = Env)
         /\ r.err = "Ok" => r.e.BatchId = Some(Unwrap(BatchId) + 1)
  /\ \A i \in 1..Len(processed) : processed[i] = i
  /\ IsSome(BatchId) => Unwrap(BatchId) = Len(processed) + 1
  /\ ~IsSome(BatchId) => processed = <<>>

\* batch 1 was processed; sending it again, or skipping to batch 3, is refused
C3_Witness ==
  /\ processed = <<1>>
  /\ BatchId = Some(2)
  /\ \E d \in TradeUploadDatas :
       d.batch_id = 2 /\ d.trades # <<>> /\ TradeUploadOutcome(d).err = "Ok"

\* C4: a trade batch is atomic: when the batch fails, for whatever reason and at
\* whichever pair, no balance changes, BatchId is not incremented and nothing of
\* the pairs before the failing one remains.
C4_BatchAtomic ==
  \A d \in TradeUploadDatas :
    LET r == TradeUploadOutcome(d) IN r.err # "Ok" => r.e = Env

\* a batch whose first pair would be applied alone fails at its second pair
C4_Witness ==
  \E d \in TradeUploadDatas :
    /\ Len(d.trades) = 2
    /\ TradeUploadOutcome([d EXCEPT !.trades = <<d.trades[1]>>]).err = "Ok"
    /\ TradeUploadOutcome([d EXCEPT !.trades = <<d.trades[1]>>]).e.user_balance
         # user_balance
    /\ TradeUploadOutcome(d).err = "ErrBalanceNotEnough"

\* the key the account of a trade unit announced under the unit's pub_key_id
\* verifies the unit's signature over the unit's order bytes
SignedByAccount(u) ==
  /\ IsSome(public_key[<<u.account, u.pub_key_id>>])
  /\ ed25519_verify(Unwrap(public_key[<<u.account, u.pub_key_id>>]), u.order,
                    u.order_signature)

\* C8: no trade is applied without both users' signatures: a batch succeeds only
\* if, for every pair, the order of the buy side and of the sell side verify
\* against the key their own account announced under pub_key_id; otherwise the
\* batch aborts and changes nothing.
C8_TradesAreSigned ==
  \A d \in TradeUploadDatas :
    (\E i \in 1..Len(d.trades) :
        ~SignedByAccount(d.trades[i].buy_side) \/ ~SignedByAccount(d.trades[i].sell_side))
    => LET r == TradeUploadOutcome(d) IN r.err # "Ok" /\ r.e = Env

\* a pair was swapped with both keys announced, and the same pair with the
\* seller's order signed by the buyer's key is refused
C8_Witness ==
  /\ processed = <<1>>
  /\ Balance(Env, "u2", "t1") = 1
  /\ \A u \in Users : IsSome(public_key[<<u, 1>>])
  /\ \E d \in TradeUploadDatas :
       /\ d.batch_id = 2 /\ Len(d.trades) = 1
       /\ SignedByAccount(d.trades[1].buy_side)
       /\ ~SignedByAccount(d.trades[1].sell_side)
       /\ TradeUploadOutcome(d).err = "Ed25519VerifyFailed"

IdsInOrder(ids) == \A i \in 1..Len(ids) : ids[i] = i

\* C9 (state part): the ids returned by request_withdraw are 1, 2, 3, ...; the
\* counters are at least 1 once set, and WithdrawId is the next id to return.
C9_IdsState ==
  /\ IdsInOrder(returned_ids)
  /\ IsSome(WithdrawId) => Unwrap(WithdrawId) = Len(returned_ids) + 1
  /\ IsSome(BatchId) => Unwrap(BatchId) >= 1
  /\ \A id \in WithdrawIds :
       IsSome(withdraw_request[id]) <=> id \in 1..Len(returned_ids)

\* C9 (step part): the counters start at 1 and never decrease, and a successful
\* request_withdraw writes its record under an id that held no record.
C9_IdsStep ==
  /\ (~IsSome(WithdrawId) /\ IsSome(WithdrawId')) => WithdrawId' = Some(1)
  /\ (~IsSome(BatchId) /\ IsSome(BatchId')) => BatchId' = Some(1)
  /\ IsSome(WithdrawId) => (IsSome(WithdrawId') /\ Unwrap(WithdrawId') >= Unwrap(WithdrawId))
  /\ IsSome(BatchId) => (IsSome(BatchId') /\ Unwrap(BatchId') >= Unwrap(BatchId))
  /\ returned_ids' # returned_ids =>
       /\ Len(returned_ids') = Len(returned_ids) + 1
       /\ \A i \in 1..Len(returned_ids) :
            returned_ids'[Len(returned_ids')] > returned_ids[i]
       /\ ~IsSome(withdraw_request[returned_ids'[Len(returned_ids')]])
       /\ IsSome(withdraw_request'[returned_ids'[Len(returned_ids')]])
       /\ \A id \in WithdrawIds :
            id # returned_ids'[Len(returned_ids')] =>
              withdraw_request'[id] = withdraw_request[id]

\* C9: WithdrawId and BatchId start at 1 and never decrease; every successful
\* request_withdraw returns an id greater than all ids returned before (the first
\* returns 1), so no two records share an id and no record is overwritten by a
\* new request.
C9_MonotoneIds == [] C9_IdsState /\ [][C9_IdsStep]_vars

\* two requests were made: they got the ids 1 and 2 and both records exist
C9_Witness ==
  /\ returned_ids = <<1, 2>>
  /\ WithdrawId = Some(3)
  /\ IsSome(withdraw_request[1]) /\ IsSome(withdraw_request[2])
  /\ Unwrap(withdraw_request[1]).status = "Executed"

\* ------------------------------------------------- balances and trade legs
RECURSIVE SumOver(_, _, _)
\* the sum over the accounts in S of balance + balance_on_withdraw in token t
SumOver(S, e, t) ==
  IF S = {} THEN 0
  ELSE LET a == CHOOSE x \in S : TRUE IN
       Balance(e, a, t) + OnWithdraw(e, a, t) + SumOver(S \ {a}, e, t)

\* C1: for every token, the sum over all accounts (fee collector included) of
\* balance + balance_on_withdraw equals what the contract holds on the token
\* ledger.
C1_Conservation ==
  \A t \in Tokens : SumOver(Accounts, Env, t) = ledger[t][Contract]

\* C10: every account's balance and balance_on_withdraw, the fee collector's
\* included, is >= 0 for every token.
C10_NonNegative ==
  \A a \in Accounts, t \in Tokens :
    Balance(Env, a, t) >= 0 /\ OnWithdraw(Env, a, t) >= 0

\* C7: a batch with a pair whose buy-side and sell-side symbols differ, or whose
\* symbol names a pair that is not stored as Listed (never registered, or set to
\* Delisted), aborts and changes no balance.
C7_OnlyListedPairsTrade ==
  \A d \in TradeUploadDatas :
    (\E i \in 1..Len(d.trades) :
        \/ d.trades[i].buy_side.symbol # d.trades[i].sell_side.symbol
        \/ ~PairManager_is_listed(Env, d.trades[i].buy_side.symbol))
    => LET r == TradeUploadOutcome(d) IN r.err # "Ok" /\ r.e = Env

\* the trade units explored
TradeUnits == UNION {OneOffUnits(a) : a \in Users}

\* what the leg of unit u on side `side` of a pair stored as `pair` adds to the
\* balance of account a in token t
UnitLegDelta(u, side, pair, a, t) ==
  IF a # u.account THEN 0
  ELSE IF side = "Buy"
    THEN (IF t = pair[1] THEN u.quantity ELSE 0) - (IF t = pair[2] THEN u.amount ELSE 0)
    ELSE (IF t = pair[2] THEN u.amount ELSE 0) - (IF t = pair[1] THEN u.quantity ELSE 0)

\* what the fee of unit u adds to the balance of account a in token t, when fc is
\* the fee collector
UnitFeeDelta(u, fc, a, t) ==
  IF t # u.fee_token_asset THEN 0
  ELSE (IF a = u.account THEN 0 - u.fee_amount ELSE 0)
       + (IF a = fc THEN u.fee_amount ELSE 0)

StoredPair(symbol) ==
  <<Unwrap(pair_info[symbol]).token1, Unwrap(pair_info[symbol]).token2>>

RECURSIVE LegsDelta(_, _, _, _)
\* the sum of the leg deltas of the pairs i.. of trades
LegsDelta(trades, i, a, t) ==
  IF i > Len(trades) THEN 0
  ELSE UnitLegDelta(trades[i].buy_side, "Buy", StoredPair(trades[i].buy_side.symbol), a, t)
       + UnitLegDelta(trades[i].sell_side, "Sell", StoredPair(trades[i].sell_side.symbol), a, t)
       + LegsDelta(trades, i + 1, a, t)

RECURSIVE FeesDelta(_, _, _, _)
\* the sum of the fee deltas of the pairs i.. of trades
FeesDelta(trades, i, a, t) ==
  IF i > Len(trades) THEN 0
  ELSE UnitFeeDelta(trades[i].buy_side, Unwrap(FeeCollector), a, t)
       + UnitFeeDelta(trades[i].sell_side, Unwrap(FeeCollector), a, t)
       + FeesDelta(trades, i + 1, a, t)

NoFees(trades) ==
  \A i \in 1..Len(trades) :
    trades[i].buy_side.fee_amount = 0 /\ trades[i].sell_side.fee_amount = 0

DebitToken(pair, side) == IF side = "Buy" THEN pair[2] ELSE pair[1]
DebitAmount(u, side) == IF side = "Buy" THEN u.amount ELSE u.quantity

\* C5 (one leg): on a stored pair (token1, token2) the buy leg adds quantity to
\* the account's token1 balance and takes amount from its token2 balance, the
\* sell leg adds amount to token2 and takes quantity from token1; nothing else
\* changes; a leg whose debit exceeds the account's balance (balance_on_withdraw
\* not counted) aborts with ErrBalanceNotEnough.
C5_Leg ==
  \A u \in TradeUnits, side \in {"Buy", "Sell"} :
    IsSome(pair_info[u.symbol]) =>
      LET pair == StoredPair(u.symbol)
          r == execute_trade(Env, u, pair, side)
      IN IF DebitAmount(u, side) > Balance(Env, u.account, DebitToken(pair, side))
         THEN r.err = "ErrBalanceNotEnough" /\ r.e = Env
         ELSE /\ r.err = "Ok"
              /\ \A a \in Accounts, t \in Tokens :
                   /\ Balance(r.e, a, t) = Balance(Env, a, t) + UnitLegDelta(u, side, pair, a, t)
                   /\ OnWithdraw(r.e, a, t) = OnWithdraw(Env, a, t)
              /\ r.e.ledger = ledger

\* C5 (whole batch): a successful batch without fees changes every balance by
\* the sum of the leg deltas of its pairs and nothing else; a single-pair batch
\* that passes the batch id, signature, symbol and pair checks and whose buy side
\* pays more than the buyer's balance aborts with ErrBalanceNotEnough.
C5_Batch ==
  \A d \in TradeUploadDatas :
    LET r == TradeUploadOutcome(d) IN
    /\ (r.err = "Ok" /\ NoFees(d.trades)) =>
         /\ \A a \in Accounts, t \in Tokens :
              /\ Balance(r.e, a, t) = Balance(Env, a, t) + LegsDelta(d.trades, 1, a, t)
              /\ OnWithdraw(r.e, a, t) = OnWithdraw(Env, a, t)
         /\ r.e.ledger = ledger
    /\ ( /\ Len(d.trades) = 1
         /\ BatchId = Some(d.batch_id)
         /\ SignedByAccount(d.trades[1].buy_side)
         /\ SignedByAccount(d.trades[1].sell_side)
         /\ d.trades[1].buy_side.symbol = d.trades[1].sell_side.symbol
         /\ IsSome(pair_info[d.trades[1].buy_side.symbol])
         /\ d.trades[1].buy_side.amount >
              Balance(Env, d.trades[1].buy_side.account,
                      StoredPair(d.trades[1].buy_side.symbol)[2]) )
       => (r.err = "ErrBalanceNotEnough" /\ r.e = Env)

\* C5: the legs of a trade move quantity of token1 to the buyer and amount of
\* token2 to the seller, debiting the other token of each side, and a leg whose
\* debit exceeds the spendable balance aborts with ErrBalanceNotEnough.
C5_TradeLegs == C5_Leg /\ C5_Batch

\* u2 bought 1 token1 from u1 for 1 token2 and asked to withdraw it: its
\* token1 is on withdraw, and selling it now is refused
C5_Witness ==
  /\ processed = <<1>>
  /\ Balance(Env, "u1", "t2") + Balance(Env, "u1", "t1") = 1
  /\ \E u \in TradeUnits :
       /\ u.account = "u2" /\ u.quantity = 1
       /\ IsSome(pair_info[u.symbol])
       /\ Balance(Env, "u2", StoredPair(u.symbol)[1]) = 0
       /\ OnWithdraw(Env, "u2", StoredPair(u.symbol)[1]) = 1
       /\ ledger[StoredPair(u.symbol)[1]]["u2"] = 0
       /\ execute_trade(Env, u, StoredPair(u.symbol), "Sell").err = "ErrBalanceNotEnough"

\* C6 (one fee step): a fee of 0 changes nothing; a non-zero fee above the
\* account's balance in fee_token_asset aborts with ErrBalanceNotEnough;
\* otherwise the fee is taken from the account and added to the fee collector in
\* that token, so the sum over the accounts is unchanged.
C6_FeeStep ==
  \A u \in TradeUnits :
    IsSome(FeeCollector) =>
      LET r == withdraw_fee(Env, u) IN
      IF u.fee_amount = 0 THEN r.err = "Ok" /\ r.e = Env
      ELSE IF u.fee_amount > Balance(Env, u.account, u.fee_token_asset)
        THEN r.err = "ErrBalanceNotEnough" /\ r.e = Env
      ELSE /\ r.err = "Ok"
           /\ \A a \in Accounts, t \in Tokens :
                /\ Balance(r.e, a, t)
                     = Balance(Env, a, t) + UnitFeeDelta(u, Unwrap(FeeCollector), a, t)
                /\ OnWithdraw(r.e, a, t) = OnWithdraw(Env, a, t)
           /\ \A t \in Tokens : SumOver(Accounts, r.e, t) = SumOver(Accounts, Env, t)
           /\ r.e.ledger = ledger

\* C6 (whole batch): a successful batch changes every balance by the leg deltas
\* plus the fee deltas of its pairs.
C6_Batch ==
  \A d \in TradeUploadDatas :
    LET r == TradeUploadOutcome(d) IN
    r.err = "Ok" =>
      \A a \in Accounts, t \in Tokens :
        Balance(r.e, a, t) = Balance(Env, a, t) + LegsDelta(d.trades, 1, a, t)
                               + FeesDelta(d.trades, 1, a, t)

RequestWithdrawOutcome(user, token, amount) ==
  request_withdraw(Env, TRUE, user, token, amount)

\* the amounts tried against a balance b: the explored amounts, b itself and b + 1
AmountsAround(b) == Amounts \cup {b, b + 1}

\* C11 (AssetManager): request_withdraw with amount <= 0 aborts with
\* ErrAmountMustBePositive and with amount > balance with ErrBalanceNotEnough,
\* changing nothing; otherwise (amount = balance included) it moves exactly
\* amount from balance to balance_on_withdraw of (user, token), moves no token,
\* touches no other balance and stores {user, token, amount, Requested} under
\* the id it returns, which is the stored WithdrawId.
C11_RequestWithdraw ==
  \A user \in Accounts, token \in Tokens :
    \A amount \in AmountsAround(Balance(Env, user, token)) :
      LET r == RequestWithdrawOutcome(user, token, amount) IN
      IF amount <= 0 THEN r.err = "ErrAmountMustBePositive" /\ r.e = Env
      ELSE IF amount > Balance(Env, user, token)
        THEN r.err = "ErrBalanceNotEnough" /\ r.e = Env
      ELSE /\ r.err = "Ok"
           /\ Balance(r.e, user, token) = Balance(Env, user, token) - amount
           /\ OnWithdraw(r.e, user, token) = OnWithdraw(Env, user, token) + amount
           /\ \A a \in Accounts, t \in Tokens :
                <<a, t>> # <<user, token>> => r.e.user_balance[<<a, t>>] = user_balance[<<a, t>>]
           /\ r.e.ledger = ledger
           /\ WithdrawId = Some(r.ret)
           /\ r.e.withdraw_request[r.ret] = Some(WithdrawData(user, token, amount, "Requested"))
           /\ \A id \in WithdrawIds :
                id # r.ret => r.e.withdraw_request[id] = withdraw_request[id]

\* Contract::withdraw of the exchange authorised by the user, in the current state
ExchangeWithdrawOutcome(user, token, amount) ==
  orderbook_withdraw(ExchangeEnv, TRUE, user, token, amount)

\* the amounts around the spendable balance, the reserved balance and their sum
ExchangeAmountsAround(b) ==
  Amounts \cup {b.balance, b.balance + 1, b.balance_in_trading,
                b.balance + b.balance_in_trading}

\* C11 (exchange): withdraw with amount <= 0 aborts with AmountMustBePositive
\* and with amount > balance with BalanceNotEnough, whatever balance_in_trading
\* is, changing nothing; otherwise (amount = balance included) it passes the
\* balance check: it takes exactly amount from balance, leaves
\* balance_in_trading, every other balance and the books as they were and moves
\* amount of the token from the exchange to the user, or, when the exchange
\* holds less than amount of the token, the transfer fails and nothing changes.
C11_ExchangeWithdraw ==
  \A user \in Users, token \in Tokens :
    LET b == orderbook_balances(ExchangeEnv, user, token) IN
    \A amount \in ExchangeAmountsAround(b) :
      LET r == ExchangeWithdrawOutcome(user, token, amount) IN
      IF amount <= 0 THEN r.err = "AmountMustBePositive" /\ r.e = ExchangeEnv
      ELSE IF amount > b.balance THEN r.err = "BalanceNotEnough" /\ r.e = ExchangeEnv
      ELSE IF ledger[token][ExchangeContract] < amount
        THEN r.err = "TokenTransferFailed" /\ r.e = ExchangeEnv
      ELSE /\ r.err = "Ok"
           /\ r.e.trading_balance =
                [trading_balance EXCEPT ![<<user, token>>].balance = @ - amount]
           /\ r.e.order_book_store = order_book_store
           /\ r.e.ledger[token][user] = ledger[token][user] + amount
           /\ r.e.ledger[token][ExchangeContract] = ledger[token][ExchangeContract] - amount
           /\ \A t \in Tokens, h \in Holders :
                (t # token \/ h \notin {user, ExchangeContract})
                  => r.e.ledger[t][h] = ledger[t][h]

RequestAfterDeposit(user, token, amount) ==
  LET i == initialize(Env, "owner", "operator", "fc")
      l == set_token_status(i.e, TRUE, token, "Listed")
      d == deposit(l.e, TRUE, user, token, amount)
  IN [deposited |-> i.err = "Ok" /\ l.err = "Ok" /\ d.err = "Ok",
      request |-> request_withdraw(d.e, TRUE, user, token, amount),
      over |-> request_withdraw(d.e, TRUE, user, token, amount + 1)]

\* C11 witness: on the exchange a user has a spendable balance that the
\* exchange can pay out, and withdraws all of it but not one more; another user
\* has nothing spendable and a reserved balance in a token the exchange holds,
\* and is refused the reserved amount; and a user who deposits an amount into
\* the AssetManager can request all of it but not one more
\* C11 (exchange), the case in which the balance check passes and the token
\* transfer fails: a balance credited by a fill against an order that was
\* placed without funds
C11_TransferFails ==
  \E user \in Users, token \in Tokens :
    LET b == orderbook_balances(ExchangeEnv, user, token) IN
    b.balance >= 1 /\ ExchangeWithdrawOutcome(user, token, b.balance).err = "TokenTransferFailed"

ExecutionWithdrawData(id, user, token, amount, execution_status) ==
  [id |-> id, user |-> user, token |-> token, amount |-> amount,
   execution_status |-> execution_status]

\* execute_action(ExecuteWithdraw) authorised by the operator manager, on Env e
ExecuteWithdrawOn(e, d) == execute_action(e, TRUE, OperatorAction("ExecuteWithdraw", d))

C13_UnknownOrMismatched ==
  \A d \in ExecutionWithdrawDatas :
    LET r == ExecuteWithdrawOutcome(d)
        w == withdraw_request[d.id]
    IN /\ (IsSome(OperatorManager) /\ ~IsSome(w)) =>
            (r.err = "ErrWithdrawDataNotExist" /\ r.e = Env)
       /\ ( /\ IsSome(w)
            /\ Unwrap(w).status = "Requested"
            /\ (Unwrap(w).user # d.user \/ Unwrap(w).token # d.token
                  \/ Unwrap(w).amount # d.amount) )
          => (r.err = "ErrWithdrawRequestDataMismatch" /\ r.e = Env)

\* a request of 1 is pending; executing it for the right user and token but
\* with amount 2 is refused, and so is an id that was never returned
C13_Witness ==
  /\ \E d \in ExecutionWithdrawDatas :
       /\ IsSome(withdraw_request[d.id])
       /\ Unwrap(withdraw_request[d.id]) = WithdrawData(d.user, d.token, 1, "Requested")
       /\ d.amount = 2
       /\ OnWithdraw(Env, d.user, d.token) = 1
       /\ ExecuteWithdrawOutcome(d).err = "ErrWithdrawRequestDataMismatch"
  /\ \E d \in ExecutionWithdrawDatas :
       /\ ~IsSome(withdraw_request[d.id])
       /\ ExecuteWithdrawOutcome(d).err = "ErrWithdrawDataNotExist"

C15_Deposit ==
  \A user \in Accounts, token \in Tokens, amount \in -1..(MaxAmount + 1) :
    LET r == deposit(Env, TRUE, user, token, amount) IN
    /\ amount <= 0 => (r.err = "ErrAmountMustBePositive" /\ r.e = Env)
    /\ (amount > 0 /\ token_status[token] # Some("Listed")) =>
         (r.err = "ErrTokenIsNotListed" /\ r.e = Env)
    /\ (amount > 0 /\ token_status[token] = Some("Listed")
          /\ ledger[token][user] >= amount) => r.err = "Ok"
    /\ r.err # "Ok" => r.e = Env
    /\ r.err = "Ok" =>
         /\ r.e.user_balance = [user_balance EXCEPT ![<<user, token>>].balance = @ + amount]
         /\ r.e.ledger[token][Contract] = ledger[token][Contract] + amount
         /\ r.e.ledger[token][user] = ledger[token][user] - amount
         /\ \A t \in Tokens, h \in Holders :
              (t # token \/ h \notin {user, Contract}) => r.e.ledger[t][h] = ledger[t][h]
         /\ [r.e EXCEPT !.user_balance = user_balance, !.ledger = ledger] = Env

\* u1 deposited into t1 while it was Listed; t1 is now Delisted and a deposit
\* of u2's t2, never listed, and a further deposit into t1 are refused
C15_Witness ==
  /\ token_status["t1"] = Some("Delisted")
  /\ ~IsSome(token_status["t2"])
  /\ Balance(Env, "u1", "t1") = 1
  /\ ledger["t1"][Contract] = 1
  /\ deposit(Env, TRUE, "u2", "t2", 1).err = "ErrTokenIsNotListed"
  /\ deposit(Env, TRUE, "u1", "t1", 1).err = "ErrTokenIsNotListed"

\* --------------------------------------------------------------------- keys
\* C16 (state part): user_announce_key for a slot that holds a key aborts with
\* ErrPublicKeyAlreadyExist, whichever key is announced, and changes nothing;
\* get_user_key returns the stored key, and aborts with ErrNoUserPublicKeyExist
\* for a slot never written.
C16_KeyState ==
  \A user \in Users, key_id \in KeyIds :
    IF IsSome(public_key[<<user, key_id>>])
    THEN /\ \A k \in PubKeys :
              LET r == user_announce_key(Env, TRUE, user, key_id, k) IN
              r.err = "ErrPublicKeyAlreadyExist" /\ r.e = Env
         /\ get_user_key(Env, user, key_id).err = "Ok"
         /\ get_user_key(Env, user, key_id).ret = Unwrap(public_key[<<user, key_id>>])
    ELSE /\ get_user_key(Env, user, key_id).err = "ErrNoUserPublicKeyExist"
         /\ \A k \in PubKeys :
              LET r == user_announce_key(Env, TRUE, user, key_id, k) IN
              r.err = "Ok" /\ get_user_key(r.e, user, key_id).ret = k

\* C16 (step part): a slot that holds a key holds the same key after every step.
C16_KeyStep ==
  \A user \in Users, key_id \in KeyIds :
    IsSome(public_key[<<user, key_id>>]) =>
      public_key'[<<user, key_id>>] = public_key[<<user, key_id>>]

\* C16: announced keys are write-once: after a successful user_announce_key every
\* later announce for the same (user, key_id) aborts with
\* ErrPublicKeyAlreadyExist and get_user_key returns the first key in every later
\* state; get_user_key for a slot never written aborts with
\* ErrNoUserPublicKeyExist.
C16_KeysWriteOnce == [] C16_KeyState /\ [][C16_KeyStep]_vars

\* u1 announced k1 and a batch was processed since; announcing k2 for the same slot is refused
\* and get_user_key still returns k1
C16_Witness ==
  /\ public_key[<<"u1", 1>>] = Some("k1")
  /\ processed = <<1>>
  /\ user_announce_key(Env, TRUE, "u1", 1, "k2").err = "ErrPublicKeyAlreadyExist"
  /\ get_user_key(Env, "u1", 1).ret = "k1"

\* ------------------------------------------------------------ token listing
\* C17 (state part): on an initialized contract set_token_status with the stored
\* status aborts with ErrSameValueStored and changes nothing; with any other
\* status, a first set of either status included, it succeeds, stores the status
\* and changes nothing else, and is_token_listed is then true exactly when the
\* status set is Listed; is_token_listed is false for a token never set and
\* otherwise true exactly when the stored status is Listed.
C17_TokenState ==
  /\ \A token \in Tokens :
       is_token_listed(Env, token) <=> token_status[token] = Some("Listed")
  /\ IsSome(Owner) =>
       \A token \in Tokens, status \in ListingStatuses :
         LET r == set_token_status(Env, TRUE, token, status) IN
         IF token_status[token] = Some(status)
         THEN r.err = "ErrSameValueStored" /\ r.e = Env
         ELSE /\ r.err = "Ok"
              /\ r.e = [Env EXCEPT !.token_status[token] = Some(status)]
              /\ is_token_listed(r.e, token) <=> status = "Listed"

\* C17 (step part): the stored status of a token changes only to a status
\* different from the stored one, one token at a time, and is never removed.
C17_TokenStep ==
  \A token \in Tokens :
    token_status'[token] # token_status[token] =>
      /\ IsSome(token_status'[token])
      /\ \E status \in ListingStatuses :
           set_token_status(Env, TRUE, token, status).e.token_status = token_status'

\* C17: set_token_status with the status already stored aborts with
\* ErrSameValueStored and leaves the status unchanged; the first set succeeds for
\* either status; is_token_listed is true exactly when the last successful
\* set_token_status for the token stored Listed, and false for a token never set.
C17_TokenListing == [] C17_TokenState /\ [][C17_TokenStep]_vars

\* t1 was first set to Delisted, then to Listed; t2 was listed, used for a
\* deposit and delisted: is_token_listed follows the last set
C17_Witness ==
  /\ token_status = [t \in Tokens |-> IF t = "t1" THEN Some("Listed") ELSE Some("Delisted")]
  /\ ~IsSome(pair_info["A"])
  /\ Balance(Env, "u2", "t2") = 1
  /\ Balance(Env, "u1", "t1") = 1
  /\ is_token_listed(Env, "t1") /\ ~is_token_listed(Env, "t2")
  /\ set_token_status(Env, TRUE, "t2", "Delisted").err = "ErrSameValueStored"

\* ------------------------------------------------------------- pair listing
\* the outcome, in the current state, of set_pair_status authorised by the owner
SetPairStatusOutcome(symbol, token1, token2, status) ==
  set_pair_status(Env, TRUE, symbol, token1, token2, status)

\* C18 (state part): on an initialized contract, set_pair_status for a symbol
\* that has a stored pair, with tokens different from the stored ones, aborts
\* and changes nothing: with ErrTokenIsNotListed when one of the tokens is not
\* Listed, else with ErrSameValueStored when the requested status is the stored
\* one, else with ErrChangingPair.
C18_OtherTokensRefused ==
  IsSome(Owner) =>
    \A symbol \in Symbols, token1 \in Tokens, token2 \in Tokens, status \in ListingStatuses :
      (IsSome(pair_info[symbol]) /\ <<token1, token2>> # StoredPair(symbol)) =>
        LET r == SetPairStatusOutcome(symbol, token1, token2, status) IN
        /\ r.e = Env
        /\ r.err = IF ~is_token_listed(Env, token1) \/ ~is_token_listed(Env, token2)
                     THEN "ErrTokenIsNotListed"
                   ELSE IF status = Unwrap(pair_info[symbol]).status
                     THEN "ErrSameValueStored"
                   ELSE "ErrChangingPair"

\* C18 (step part): the tokens stored under a symbol are the same after every
\* step, and a stored pair is never removed.
C18_TokensStep ==
  \A symbol \in Symbols :
    IsSome(pair_info[symbol]) =>
      /\ IsSome(pair_info'[symbol])
      /\ Unwrap(pair_info'[symbol]).token1 = Unwrap(pair_info[symbol]).token1
      /\ Unwrap(pair_info'[symbol]).token2 = Unwrap(pair_info[symbol]).token2

\* C18 (amended): for a symbol that has a stored pair, set_pair_status with a
\* different token pair always fails, with ErrChangingPair when both tokens are
\* Listed and the requested status differs from the stored one, with
\* ErrSameValueStored when the requested status is the stored one, and with
\* ErrTokenIsNotListed when a token is not Listed; the tokens stored under a
\* symbol never change after its first successful set_pair_status.
C18_PairTokensFixed == [] C18_OtherTokensRefused /\ [][C18_TokensStep]_vars

\* pair A is stored as (t1, t2), Listed, and both tokens are still Listed:
\* setting it to (t2, t1) is refused with ErrChangingPair for Delisted and with
\* ErrSameValueStored for Listed
C18_Witness ==
  /\ pair_info["A"] = Some(PairStorageInfo("t1", "t2", "Listed"))
  /\ is_token_listed(Env, "t1") /\ is_token_listed(Env, "t2")
  /\ SetPairStatusOutcome("A", "t2", "t1", "Delisted").err = "ErrChangingPair"
  /\ SetPairStatusOutcome("A", "t2", "t1", "Listed").err = "ErrSameValueStored"

\* C18 (as stated): for a symbol that has a stored pair, set_pair_status with
\* different tokens, both Listed, fails with ErrChangingPair for either
\* requested status.
C18_AlwaysChangingPair ==
  IsSome(Owner) =>
    \A symbol \in Symbols, token1 \in Tokens, token2 \in Tokens, status \in ListingStatuses :
      ( /\ IsSome(pair_info[symbol])
        /\ <<token1, token2>> # StoredPair(symbol)
        /\ is_token_listed(Env, token1) /\ is_token_listed(Env, token2) ) =>
        SetPairStatusOutcome(symbol, token1, token2, status).err = "ErrChangingPair"

\* C19 (amended): on an initialized contract set_pair_status aborts with
\* ErrTokenIsNotListed unless both tokens are Listed at the call, whatever the
\* requested status; with both Listed and token1 = token2 it always aborts, with
\* ErrSamePairTokens when the symbol has no stored pair (with ErrSameValueStored
\* or ErrChangingPair when it has one); an abort changes nothing; no stored
\* pair has token1 = token2; on success the pair is stored with the requested
\* status and is_pair_listed is true exactly when the stored status is Listed.
C19_PairListing ==
  /\ \A symbol \in Symbols :
       /\ IsSome(pair_info[symbol]) =>
            Unwrap(pair_info[symbol]).token1 # Unwrap(pair_info[symbol]).token2
       /\ is_pair_listed(Env, symbol) <=>
            (IsSome(pair_info[symbol]) /\ Unwrap(pair_info[symbol]).status = "Listed")
  /\ IsSome(Owner) =>
       \A symbol \in Symbols, token1 \in Tokens, token2 \in Tokens, status \in ListingStatuses :
         LET r == SetPairStatusOutcome(symbol, token1, token2, status) IN
         /\ (~is_token_listed(Env, token1) \/ ~is_token_listed(Env, token2)) =>
              r.err = "ErrTokenIsNotListed"
         /\ (is_token_listed(Env, token1) /\ token1 = token2) =>
              /\ r.err \in {"ErrSamePairTokens", "ErrSameValueStored", "ErrChangingPair"}
              /\ r.err = "ErrSamePairTokens" <=> ~IsSome(pair_info[symbol])
         /\ r.err # "Ok" => r.e = Env
         /\ r.err = "Ok" =>
              /\ r.e = [Env EXCEPT !.pair_info[symbol] =
                                     Some(PairStorageInfo(token1, token2, status))]
              /\ is_pair_listed(r.e, symbol) <=> status = "Listed"

\* pair A was listed while both tokens were Listed; t2 has been delisted since,
\* and setting the pair to Delisted is refused with ErrTokenIsNotListed
C19_Witness ==
  /\ pair_info["A"] = Some(PairStorageInfo("t1", "t2", "Listed"))
  /\ is_pair_listed(Env, "A")
  /\ is_token_listed(Env, "t1") /\ token_status["t2"] = Some("Delisted")
  /\ SetPairStatusOutcome("A", "t1", "t2", "Delisted").err = "ErrTokenIsNotListed"
  /\ SetPairStatusOutcome("B", "t1", "t1", "Listed").err = "ErrSamePairTokens"

\* C19 (as stated): set_pair_status with token1 = token2, the token Listed,
\* aborts with ErrSamePairTokens.
C19_SameTokensSamePairTokens ==
  IsSome(Owner) =>
    \A symbol \in Symbols, token1 \in Tokens, status \in ListingStatuses :
      is_token_listed(Env, token1) =>
        SetPairStatusOutcome(symbol, token1, token1, status).err = "ErrSamePairTokens"

\* ----------------------------------------------------------- initialization
\* the addresses tried as owner, operator manager and fee collector
Addresses == Holders \cup Owners \cup Operators

\* C20 (state part): on an initialized contract every initialize, with whatever
\* addresses, aborts with ErrAlreadyInitialized and changes nothing; before
\* initialize, owner(), operator_manager() and fee_collector() abort with
\* ErrNotInitialized, no counter is stored, and initialize stores the three
\* addresses and sets WithdrawId and BatchId to 1; afterwards the getters return
\* the stored addresses.
C20_InitState ==
  IF IsSome(Owner)
  THEN /\ \A o \in Addresses, m \in Addresses, f \in Addresses :
            LET r == initialize(Env, o, m, f) IN
            r.err = "ErrAlreadyInitialized" /\ r.e = Env
       /\ AssetManager_owner(Env).ret = Unwrap(Owner)
       /\ AssetManager_operator_manager(Env).ret = Unwrap(OperatorManager)
       /\ AssetManager_fee_collector(Env).ret = Unwrap(FeeCollector)
       /\ IsSome(WithdrawId) /\ IsSome(BatchId)
  ELSE /\ AssetManager_owner(Env).err = "ErrNotInitialized"
       /\ AssetManager_operator_manager(Env).err = "ErrNotInitialized"
       /\ AssetManager_fee_collector(Env).err = "ErrNotInitialized"
       /\ ~IsSome(WithdrawId) /\ ~IsSome(BatchId)
       /\ \A o \in Addresses, m \in Addresses, f \in Addresses :
            LET r == initialize(Env, o, m, f) IN
            /\ r.err = "Ok"
            /\ r.e = [Env EXCEPT !.Owner = Some(o), !.OperatorManager = Some(m),
                                 !.FeeCollector = Some(f), !.WithdrawId = Some(1),
                                 !.BatchId = Some(1)]

\* C20 (step part): once stored, the three addresses are the same after every
\* step and the two counters never go back.
C20_InitStep ==
  IsSome(Owner) =>
    /\ Owner' = Owner
    /\ OperatorManager' = OperatorManager
    /\ FeeCollector' = FeeCollector
    /\ Unwrap(WithdrawId') >= Unwrap(WithdrawId)
    /\ Unwrap(BatchId') >= Unwrap(BatchId)

\* C20: initialization happens once: the first initialize stores the three
\* addresses and sets WithdrawId = 1 and BatchId = 1; every later initialize
\* aborts with ErrAlreadyInitialized and changes nothing, the addresses are
\* constant and the counters are never reset; before initialize the three
\* getters abort with ErrNotInitialized.
C20_InitializedOnce == [] C20_InitState /\ [][C20_InitStep]_vars

\* the counters have moved on from 1 and an initialize with other addresses is
\* refused
C20_Witness ==
  /\ WithdrawId = Some(2)
  /\ BatchId = Some(2)
  /\ Owner = Some("owner")
  /\ initialize(Env, "u1", "u1", "u1").err = "ErrAlreadyInitialized"

\* ---------------------------------------------- exchange: price-time priority
\* the books the exchange stores
StoredBooks ==
  {Unwrap(order_book_store[p]) : p \in {q \in TradingPairs : IsSome(order_book_store[q])}}

OrderSides == {"BUY", "SELL"}
OrderTypes == {"Limit", "Market"}
Opposite(side) == IF side = "BUY" THEN "SELL" ELSE "BUY"

PlaceOrderOutcome(book, t) == place_order(book, t.order_type, t.side, t.order, t.account)

\* the OrderBookIds a side yields, in the order of maker_orders_iter
IterIds(book, side) ==
  LET it == maker_orders_iter(book, side) IN [i \in 1..Len(it) |-> it[i][1]]

IdSet(book, side) == {IterIds(book, side)[i] : i \in 1..Len(IterIds(book, side))}

PositionOf(ids, id) == CHOOSE i \in 1..Len(ids) : ids[i] = id

\* the maker's price does not violate the taker's limit
AcceptableTo(t, maker) ==
  ~(t.order_type = "Limit"
    /\ ((t.side = "BUY" /\ maker.price > t.order.price)
        \/ (t.side = "SELL" /\ maker.price < t.order.price)))

\* the makers of `before` that are gone from, or changed in, `after`
FilledAt(before, after, side, i) ==
  LET m == maker_orders_iter(before, side)[i]
      r == OrderBook_try_get(after, m[1])
  IN r.err # "Ok" \/ Unwrap(r.ret) # m[2]

GoneAt(before, after, side, i) ==
  OrderBook_try_get(after, maker_orders_iter(before, side)[i][1]).err # "Ok"

\* every side of every stored book is in price order, best price first, and
\* within a price in the order in which the level handed out its ids
C21_BookOrdering ==
  \A book \in StoredBooks : \A side \in OrderSides :
    LET it == maker_orders_iter(book, side) IN
    \A i \in 1..Len(it) : \A j \in 1..Len(it) :
      i < j =>
        /\ side = "BUY" => it[i][2].price >= it[j][2].price
        /\ side = "SELL" => it[i][2].price <= it[j][2].price
        /\ it[i][2].price = it[j][2].price => it[i][2].order_id < it[j][2].order_id
        /\ it[i][1].level.price = it[i][2].price

\* the orders that `after` keeps from `before` are yielded in the same order, and
\* an order that `after` adds is yielded after every order of its price
KeepsTimePriority(before, after, side) ==
  LET b == IterIds(before, side)
      a == IterIds(after, side)
      old == {b[i] : i \in 1..Len(b)}
  IN /\ \A i \in 1..Len(a) : \A j \in 1..Len(a) :
          (i < j /\ a[i] \in old /\ a[j] \in old)
            => PositionOf(b, a[i]) < PositionOf(b, a[j])
     /\ \A i \in 1..Len(a) : \A j \in 1..Len(a) :
          (a[i] \notin old /\ a[j].level.price = a[i].level.price) => j <= i

\* a placement and a cancellation keep the time priority of both sides
C21_TimePriority ==
  \A book \in StoredBooks : \A side \in OrderSides :
    /\ \A t \in Takers :
         LET p == PlaceOrderOutcome(book, t) IN
         p.err = "Ok" => KeepsTimePriority(book, p.book, side)
    /\ \A id \in IdSet(book, "BUY") \cup IdSet(book, "SELL") :
         LET r == OrderBook_remove_order(book, id) IN
         /\ r.err = "Ok"
         /\ KeepsTimePriority(book, r.book, side)
         /\ IdSet(r.book, side) = IdSet(book, side) \ {id}

\* matching takes the makers in the order of maker_orders_iter: a maker is filled
\* only if it is acceptable to the taker and every acceptable maker before it is
\* gone from the book, and the fills are returned in that order
C21_MatchingOrder ==
  \A book \in StoredBooks : \A t \in Takers :
    LET p == PlaceOrderOutcome(book, t)
        side == Opposite(t.side)
        makers == maker_orders_iter(book, side)
        filled == {i \in 1..Len(makers) : FilledAt(book, p.book, side, i)}
        nth(k) == CHOOSE i \in filled : Cardinality({j \in filled : j < i}) = k - 1
    IN /\ p.err = "Ok"
       /\ \A j \in filled :
            /\ AcceptableTo(t, makers[j][2])
            /\ \A i \in 1..(j - 1) :
                 AcceptableTo(t, makers[i][2]) => GoneAt(book, p.book, side, i)
       /\ Len(p.maker_orders) = Cardinality(filled)
       /\ \A k \in 1..Len(p.maker_orders) :
            /\ p.maker_orders[k].order_id = makers[nth(k)][2].order_id
            /\ p.maker_orders[k].price = makers[nth(k)][2].price
            /\ p.maker_orders[k].account = makers[nth(k)][2].account

\* C21: price-time priority. The resting buys are yielded by non-increasing
\* price and the resting sells by non-decreasing price, within a price the
\* order inserted earlier first, after any placements and cancellations; and a
\* maker is filled only if every acceptable maker before it in the iteration
\* was completely filled by the same taker.
C21_PriceTimePriority == C21_BookOrdering /\ C21_TimePriority /\ C21_MatchingOrder

\* three sells rest, one at the lower price and two at the higher one, and a
\* buy takes the cheaper one whole, then part of the earlier of the two dearer
\* ones, and leaves the later one alone
C21_Witness ==
  \E book \in StoredBooks :
    LET it == maker_orders_iter(book, "SELL") IN
    /\ Len(it) = 3
    /\ it[1][2].price < it[2][2].price
    /\ it[2][2].price = it[3][2].price
    /\ it[2][2].account # it[3][2].account
    /\ \E t \in Takers :
         LET p == PlaceOrderOutcome(book, t) IN
         /\ t.side = "BUY"
         /\ p.err = "Ok"
         /\ Len(p.maker_orders) = 2
         /\ p.maker_orders[1] = it[1][2]
         /\ p.maker_orders[2].order_id = it[2][2].order_id
         /\ p.maker_orders[2].quantity < it[2][2].quantity
         /\ OrderBook_try_get(p.book, it[3][1]).ret = Some(it[3][2])

\* ------------------------------------------------- exchange: limit and market
\* C22: a limit order never trades through its limit. Every maker fill that
\* place_order returns for a Limit BUY has a price <= the taker's price and for
\* a Limit SELL a price >= the taker's price, and the makers outside the limit
\* stay in the book as they were.
C22_LimitNeverTradesThrough ==
  \A book \in StoredBooks : \A t \in Takers :
    t.order_type = "Limit" =>
      LET p == PlaceOrderOutcome(book, t)
          makers == maker_orders_iter(book, Opposite(t.side))
      IN /\ p.err = "Ok"
         /\ \A k \in 1..Len(p.maker_orders) :
              /\ t.side = "BUY" => p.maker_orders[k].price <= t.order.price
              /\ t.side = "SELL" => p.maker_orders[k].price >= t.order.price
         /\ \A i \in 1..Len(makers) :
              ~AcceptableTo(t, makers[i][2])
                => /\ OrderBook_try_get(p.book, makers[i][1]).ret = Some(makers[i][2])
                   /\ \E j \in 1..Len(maker_orders_iter(p.book, Opposite(t.side))) :
                        maker_orders_iter(p.book, Opposite(t.side))[j] = makers[i]

\* a limit taker takes the maker inside its limit, wants more, and leaves the
\* maker outside its limit alone: what it could not buy or sell rests
C22_Witness ==
  \E book \in StoredBooks : \E t \in Takers :
    LET p == PlaceOrderOutcome(book, t)
        makers == maker_orders_iter(book, Opposite(t.side))
    IN /\ t.order_type = "Limit"
       /\ p.err = "Ok"
       /\ Len(makers) = 2
       /\ AcceptableTo(t, makers[1][2])
       /\ ~AcceptableTo(t, makers[2][2])
       /\ Len(p.maker_orders) = 1
       /\ IsSome(p.taker_order)
       /\ maker_orders_iter(p.book, Opposite(t.side)) = <<makers[2]>>

\* the sum of the quantities of a sequence of orders
TotalQuantity(orders) ==
  LET F[i \in 0..Len(orders)] == IF i = 0 THEN 0 ELSE F[i - 1] + orders[i].quantity
  IN F[Len(orders)]

\* the orders of a side as maker_orders_iter yields them
Resting(book, side) ==
  LET it == maker_orders_iter(book, side) IN [i \in 1..Len(it) |-> it[i][2]]

Min(a, b) == IF a <= b THEN a ELSE b

\* a Market taker is filled with what the opposite side holds, up to its quantity
MarketFillsWhatMatches(book, t, p) ==
  /\ p.err = "Ok"
  /\ TotalQuantity(p.maker_orders)
       = Min(t.order.quantity, TotalQuantity(Resting(book, Opposite(t.side))))

\* the statement of C23 as written: what is left of a Market taker is not
\* inserted, the taker's own side holds the same resting orders after the call
C23_MarketResidualNotInserted ==
  \A book \in StoredBooks : \A t \in Takers :
    t.order_type = "Market" =>
      LET p == PlaceOrderOutcome(book, t) IN
      /\ MarketFillsWhatMatches(book, t, p)
      /\ Resting(p.book, t.side) = Resting(book, t.side)
      /\ IdSet(p.book, t.side) = IdSet(book, t.side)

\* C23: market order policy. A Market taker that finds less opposite liquidity
\* than its quantity (an empty opposite side included) is returned the fills of
\* the part that matched, and what is left of it rests on its own side at its
\* stated price like the remainder of a Limit taker; a Market taker that is
\* filled whole leaves its own side as it was.
C23_MarketResidualRests ==
  \A book \in StoredBooks : \A t \in Takers :
    t.order_type = "Market" =>
      LET p == PlaceOrderOutcome(book, t)
          left == t.order.quantity - TotalQuantity(p.maker_orders)
      IN /\ MarketFillsWhatMatches(book, t, p)
         /\ left = 0 =>
              /\ p.taker_order = None
              /\ Resting(p.book, t.side) = Resting(book, t.side)
         /\ left > 0 =>
              /\ IsSome(p.taker_order)
              /\ Resting(p.book, Opposite(t.side)) = <<>>
              /\ Unwrap(p.taker_order)[1] \in IdSet(p.book, t.side) \ IdSet(book, t.side)
              /\ Unwrap(OrderBook_try_get(p.book, Unwrap(p.taker_order)[1]).ret).quantity = left
              /\ Unwrap(OrderBook_try_get(p.book, Unwrap(p.taker_order)[1]).ret).price
                   = t.order.price
              /\ Len(Resting(p.book, t.side)) = Len(Resting(book, t.side)) + 1

\* a Market taker takes all the opposite side holds, wants more, and what is
\* left of it is found resting on its own side
C23_Witness ==
  \E book \in StoredBooks : \E t \in Takers :
    LET p == PlaceOrderOutcome(book, t) IN
    /\ t.order_type = "Market"
    /\ p.err = "Ok"
    /\ Len(p.maker_orders) >= 1
    /\ TotalQuantity(p.maker_orders) < t.order.quantity
    /\ IsSome(p.taker_order)
    /\ Len(Resting(p.book, t.side)) = Len(Resting(book, t.side)) + 1

\* what is left of the taker: its quantity less the quantities of its fills
Remainder(t, p) == t.order.quantity - TotalQuantity(p.maker_orders)

\* a later Market taker of the other side, of more than the quantity `ahead`
\* that rests before position `pos` of `side`, is matched with the order there
MatchedLater(book, side, pos, ahead) ==
  \A q \in Quantities : \A p \in Prices : \A a \in Users :
    q > ahead =>
      FilledAt(book,
               place_order(book, "Market", Opposite(side), NewOrder(q, p, 0, "t1"), a).book,
               side, pos)

\* C24: GoodTillCancel placement. Whenever matching leaves a positive remainder
\* place_order inserts exactly one new resting order on the taker's own side,
\* at the taker's price, for the taker's account, with the remainder as its
\* quantity, and returns its OrderBookId with that remainder; with a remainder
\* of 0 nothing is inserted. An order that matches nothing rests with its full
\* quantity, the returned filled_makers is empty, and a later opposite order
\* that reaches it is matched with it.
C24_GoodTillCancel ==
  \A book \in StoredBooks : \A t \in Takers :
    LET p == PlaceOrderOutcome(book, t)
        own == Resting(book, t.side)
        own_after == Resting(p.book, t.side)
    IN /\ p.err = "Ok"
       /\ Remainder(t, p) = 0 => p.taker_order = None /\ own_after = own
       /\ Remainder(t, p) > 0 =>
            /\ IsSome(p.taker_order)
            /\ LET id == Unwrap(p.taker_order)[1]
                   placed == OrderBook_try_get(p.book, id)
               IN /\ Unwrap(p.taker_order)[2] = [t.order EXCEPT !.quantity = Remainder(t, p)]
                  /\ id.variant = (IF t.side = "BUY" THEN "BuyId" ELSE "SellId")
                  /\ id.level.price = t.order.price
                  /\ id \notin IdSet(book, t.side)
                  /\ IdSet(p.book, t.side) = IdSet(book, t.side) \cup {id}
                  /\ Len(own_after) = Len(own) + 1
                  /\ \A i \in 1..Len(own) : \E j \in 1..Len(own_after) : own_after[j] = own[i]
                  /\ placed.err = "Ok"
                  /\ Unwrap(placed.ret)
                       = Order(id.level.id, t.account, Remainder(t, p), t.order.price,
                               t.order.fee_amount, t.order.fee_token_asset)
                  /\ p.maker_orders = <<>> =>
                       /\ Unwrap(placed.ret).quantity = t.order.quantity
                       /\ LET pos == PositionOf(IterIds(p.book, t.side), id) IN
                          MatchedLater(p.book, t.side, pos,
                                       TotalQuantity(SubSeq(own_after, 1, pos - 1)))

\* a limit order with no acceptable maker rests beside the maker it refused,
\* and a taker that is filled in part rests with what is left of it
C24_Witness ==
  \E book \in StoredBooks : \E t \in Takers : \E t1 \in Takers :
    LET p == PlaceOrderOutcome(book, t)
        p1 == PlaceOrderOutcome(book, t1)
    IN /\ t.order_type = "Limit"
       /\ Len(Resting(book, Opposite(t.side))) >= 1
       /\ p.err = "Ok"
       /\ p.maker_orders = <<>>
       /\ IsSome(p.taker_order)
       /\ Len(Resting(p.book, t.side)) = Len(Resting(book, t.side)) + 1
       /\ \E t2 \in Takers :
            /\ t2.side = Opposite(t.side)
            /\ Len(PlaceOrderOutcome(p.book, t2).maker_orders) >= 1
            /\ GoneAt(p.book, PlaceOrderOutcome(p.book, t2).book, t.side,
                      PositionOf(IterIds(p.book, t.side), Unwrap(p.taker_order)[1]))
       /\ p1.err = "Ok"
       /\ Len(p1.maker_orders) >= 1
       /\ Remainder(t1, p1) > 0
       /\ IsSome(p1.taker_order)

\* ---------------------------------------------- exchange: matched quantities
\* the takers of every quantity from 0
TakersFromZero ==
  [order_type : OrderTypes, side : OrderSides,
   order : {NewOrder(q, p, 0, "t1") : q \in 0..MaxQuantity, p \in Prices}, account : Users]

\* the OrderBookId of a maker order that rested on `side`
IdOf(side, order) ==
  IF side = "BUY" THEN buy_id(order.price, order.order_id)
  ELSE sell_id(order.price, order.order_id)

\* the slot of the order in the price store of its level
SlotOf(book, id) ==
  LET pls == IF id.variant = "BuyId" THEN book.buy_orders ELSE book.sell_orders
  IN pls.levels[binary_search(pls.levels_price, id.level.price).index].order_ids[id.level.id]

\* C25: matching quantity accounting. The quantities of the returned
\* filled_makers and the returned leftover add up to the taker's quantity; a
\* maker reported with its full resting quantity is gone from the book; at most
\* one maker is filled in part, it is the last entry, the entry carries what
\* was filled, and the maker keeps its OrderBookId and its place in the queue
\* with what is left of it; every other resting order is as it was.
C25_QuantityAccounting ==
  \A book \in StoredBooks : \A t \in TakersFromZero :
    LET p == PlaceOrderOutcome(book, t)
        side == Opposite(t.side)
        n == Len(p.maker_orders)
        id(k) == IdOf(side, p.maker_orders[k])
        before(k) == OrderBook_try_get(book, id(k))
        after(k) == OrderBook_try_get(p.book, id(k))
        reported == {id(k) : k \in 1..n}
        leftover == IF IsSome(p.taker_order) THEN Unwrap(p.taker_order)[2].quantity ELSE 0
    IN /\ p.err = "Ok"
       /\ TotalQuantity(p.maker_orders) + leftover = t.order.quantity
       /\ Cardinality(reported) = n
       /\ \A k \in 1..n :
            /\ before(k).err = "Ok"
            /\ p.maker_orders[k] = [Unwrap(before(k).ret) EXCEPT
                                      !.quantity = p.maker_orders[k].quantity]
            /\ p.maker_orders[k].quantity <= Unwrap(before(k).ret).quantity
            /\ p.maker_orders[k].quantity = Unwrap(before(k).ret).quantity
                 => after(k).err # "Ok" /\ id(k) \notin IdSet(p.book, side)
            /\ p.maker_orders[k].quantity < Unwrap(before(k).ret).quantity
                 => /\ k = n
                    /\ after(k).err = "Ok"
                    /\ Unwrap(after(k).ret)
                         = [Unwrap(before(k).ret) EXCEPT
                              !.quantity = @ - p.maker_orders[k].quantity]
                    /\ SlotOf(p.book, id(k)) = SlotOf(book, id(k))
                    /\ KeepsTimePriority(book, p.book, side)
       /\ \A s \in OrderSides : \A i \in 1..Len(maker_orders_iter(book, s)) :
            LET m == maker_orders_iter(book, s)[i] IN
            (s = t.side \/ m[1] \notin reported)
              => /\ OrderBook_try_get(p.book, m[1]).ret = Some(m[2])
                 /\ SlotOf(p.book, m[1]) = SlotOf(book, m[1])
       /\ \A s \in OrderSides :
            IdSet(p.book, s) \subseteq
              IdSet(book, s) \cup (IF IsSome(p.taker_order) THEN {Unwrap(p.taker_order)[1]}
                                   ELSE {})

\* a taker takes the cheaper of two makers whole and a part of the dearer one,
\* which stays in the book with the rest
C25_Witness ==
  \E book \in StoredBooks : \E t \in TakersFromZero :
    LET p == PlaceOrderOutcome(book, t)
        makers == maker_orders_iter(book, Opposite(t.side))
    IN /\ p.err = "Ok"
       /\ Len(makers) = 2
       /\ makers[1][2].price # makers[2][2].price
       /\ Len(p.maker_orders) = 2
       /\ p.maker_orders[1] = makers[1][2]
       /\ p.maker_orders[2].quantity < makers[2][2].quantity
       /\ p.taker_order = None
       /\ Unwrap(OrderBook_try_get(p.book, makers[2][1]).ret).quantity
            = makers[2][2].quantity - p.maker_orders[2].quantity

\* ------------------------------------------------ exchange: orders and funds
\* create_order called by its user on the current state
CreateOrderOutcome(c) ==
  orderbook_create_order(ExchangeEnv, TRUE, c.trading_pair, c.order_type, c.side, c.order,
                         c.user)

\* the token an order of `side` reserves: quote for a buy, base for a sell
ReservedToken(trading_pair, side) ==
  IF side = "BUY" THEN trading_pair[2] ELSE trading_pair[1]

\* what an order of `side` reserves for `quantity` at `price`
ReserveAmount(trading_pair, side, price, quantity) ==
  IF side = "BUY"
  THEN multiply_price_and_quantity(price, quantity, decimals(trading_pair[1]))
  ELSE return_quantity(price, quantity, decimals(trading_pair[1]))

BookOf(e, trading_pair) == Unwrap(e.order_book_store[trading_pair])

\* C26: place/cancel round trip. When a user places a limit order that matches
\* nothing and cancels it next, the user's balance and balance_in_trading of the
\* reserved token are what they were before the placement, the cancel returns
\* the order with its price and quantity, and the book holds the resting orders
\* it held before the placement.
C26_PlaceCancelRoundTrip ==
  \A c \in CreateOrderInputs :
    (c.order_type = "Limit" /\ IsSome(order_book_store[c.trading_pair])) =>
      LET r == CreateOrderOutcome(c)
          token == ReservedToken(c.trading_pair, c.side)
          reserve == ReserveAmount(c.trading_pair, c.side, c.order.price, c.order.quantity)
          k == orderbook_cancel_order(r.e, TRUE, c.trading_pair, r.ret[1], c.user)
      IN (r.err = "Ok" /\ r.ret[2] = <<>>) =>
           /\ r.e.trading_balance[<<c.user, token>>]
                = TradingBalances(trading_balance[<<c.user, token>>].balance - reserve,
                    trading_balance[<<c.user, token>>].balance_in_trading + reserve)
           /\ k.err = "Ok"
           /\ k.ret.price = c.order.price
           /\ k.ret.quantity = c.order.quantity
           /\ k.ret.account = c.user
           /\ k.e.trading_balance[<<c.user, token>>] = trading_balance[<<c.user, token>>]
           /\ k.e.trading_balance = trading_balance
           /\ k.e.ledger = ledger
           /\ \A s \in OrderSides :
                /\ maker_orders_iter(BookOf(k.e, c.trading_pair), s)
                     = maker_orders_iter(BookOf(ExchangeEnv, c.trading_pair), s)

\* a user that deposited places a limit order beside another resting order,
\* which reserves a positive amount of what it deposited, and cancels it
C26_Witness ==
  \E c \in CreateOrderInputs :
    /\ c.order_type = "Limit"
    /\ IsSome(order_book_store[c.trading_pair])
    /\ LET r == CreateOrderOutcome(c)
           token == ReservedToken(c.trading_pair, c.side)
           k == orderbook_cancel_order(r.e, TRUE, c.trading_pair, r.ret[1], c.user)
       IN /\ r.err = "Ok"
          /\ r.ret[2] = <<>>
          /\ Len(maker_orders_iter(BookOf(ExchangeEnv, c.trading_pair), c.side)) >= 1
          /\ trading_balance[<<c.user, token>>].balance >= 1
          /\ r.e.trading_balance[<<c.user, token>>].balance_in_trading
               = trading_balance[<<c.user, token>>].balance_in_trading + 1
          /\ k.err = "Ok"
          /\ k.e.trading_balance = trading_balance

\* what the exchange's books say the users own of a token
RECURSIVE TradingSum(_, _, _)
TradingSum(S, e, t) ==
  IF S = {} THEN 0
  ELSE LET u == CHOOSE x \in S : TRUE IN
       e.trading_balance[<<u, t>>].balance + e.trading_balance[<<u, t>>].balance_in_trading
         + TradingSum(S \ {u}, e, t)

\* every token the users own in the exchange's books is held by the exchange
C27_Holdings ==
  \A t \in Tokens : TradingSum(Users, ExchangeEnv, t) = ledger[t][ExchangeContract]

\* create_order and cancel_order, on any stored book, leave the sums as they are
C27_OrdersKeepSum ==
  LET kept(r) ==
        /\ \A t \in Tokens : TradingSum(Users, r.e, t) = TradingSum(Users, ExchangeEnv, t)
        /\ r.e.ledger = ledger
  IN \A pair \in TradingPairs \cup SamePairs : \A user \in Users :
       /\ \A order_type \in OrderTypes : \A side \in OrderSides : \A order \in NewOrders :
            kept(orderbook_create_order(ExchangeEnv, TRUE, pair, order_type, side, order,
                                        user))
       /\ \A order_id \in OrderBookIds :
            kept(orderbook_cancel_order(ExchangeEnv, TRUE, pair, order_id, user))

\* C27: exchange conservation. In every reachable state of the exchange, for
\* every token, the sum over the users of balance + balance_in_trading is what
\* the contract holds of the token, and create_order and cancel_order leave
\* that sum unchanged.
C27_Conservation == C27_Holdings /\ C27_OrdersKeepSum

\* the sum of f over a sequence
SumSeq(seq, f(_)) ==
  LET F[i \in 0..Len(seq)] == IF i = 0 THEN 0 ELSE F[i - 1] + f(seq[i])
  IN F[Len(seq)]

\* what the resting orders of `user` on `side` of the pair's book reserve
ReservedOnSide(e, trading_pair, side, user) ==
  LET reserve(order) ==
        IF order.account = user
        THEN ReserveAmount(trading_pair, side, order.price, order.quantity)
        ELSE 0
  IN IF IsSome(e.order_book_store[trading_pair])
     THEN SumSeq(Resting(BookOf(e, trading_pair), side), reserve)
     ELSE 0

\* what the resting orders of `user` reserve of `token`
ReservedByOrders(e, user, token) ==
  LET of(pair_side) ==
        IF ReservedToken(pair_side[1], pair_side[2]) = token
        THEN ReservedOnSide(e, pair_side[1], pair_side[2], user)
        ELSE 0
      S == TradingPairs \X OrderSides
      F[T \in SUBSET S] ==
        IF T = {} THEN 0
        ELSE LET x == CHOOSE y \in T : TRUE IN of(x) + F[T \ {x}]
  IN F[S]

\* C28: reserved balance matches open orders. In every reachable state of the
\* exchange, for every user and token, balance_in_trading is the sum, over the
\* user's resting orders that reserve the token, of the reserve of what is left
\* of the order (price x remaining / 10^base_decimals truncated for a buy,
\* remaining for a sell); it is 0 for a user with no resting order.
C28_ReservedMatchesOpenOrders ==
  \A user \in Users : \A token \in Tokens :
    trading_balance[<<user, token>>].balance_in_trading
      = ReservedByOrders(ExchangeEnv, user, token)

\* a funded buy of 2 at 5 reserved 1, one unit of it was filled, and the order
\* that is left reserves 0 while balance_in_trading is still 1
C28_TruncatedRelease ==
  \E user \in Users : \E pair \in TradingPairs :
    /\ IsSome(order_book_store[pair])
    /\ \A u \in Users : \A t \in Tokens : trading_balance[<<u, t>>].balance >= 0
    /\ LET rest == Resting(BookOf(ExchangeEnv, pair), "BUY") IN
       /\ Len(rest) = 1
       /\ rest[1].account = user
       /\ rest[1].quantity = 1
       /\ rest[1].price = 5
    /\ trading_balance[<<user, pair[2]>>].balance_in_trading = 1
    /\ trading_balance[<<user, pair[1]>>].balance = 1
    /\ ReservedByOrders(ExchangeEnv, user, pair[2]) = 0

\* C29: exchange balances are never negative. In every state reachable by
\* deposit, withdraw, create_order and cancel_order, every user's balance and
\* balance_in_trading is at least 0 for every token.
C29_NonNegative ==
  \A user \in Users : \A token \in Tokens :
    /\ trading_balance[<<user, token>>].balance >= 0
    /\ trading_balance[<<user, token>>].balance_in_trading >= 0

\* ------------------------------------------------ exchange: settlement
\* what the taker of `side` pays for a fill, and what it receives for it
FillCost(trading_pair, side, price, quantity) ==
  IF side = "BUY"
  THEN (price * quantity) \div (10 ^ decimals(trading_pair[1]))
  ELSE quantity

FillProceeds(trading_pair, side, price, quantity) ==
  FillCost(trading_pair, Opposite(side), price, quantity)

\* what the fills and the reserve of a create_order add to the balance of
\* `token` of `user`: the taker pays every fill at the maker's price and
\* reserves the remainder at its own, and receives the proceeds; a maker
\* receives what the taker paid for its fill
BalanceChange(c, fills, user, token) ==
  LET paid(o) == FillCost(c.trading_pair, c.side, o.price, o.quantity)
      proceeds(o) == FillProceeds(c.trading_pair, c.side, o.price, o.quantity)
      earned(o) == IF o.account = user THEN paid(o) ELSE 0
      remaining == c.order.quantity - TotalQuantity(fills)
      pays == ReservedToken(c.trading_pair, c.side)
      receives == ReservedToken(c.trading_pair, Opposite(c.side))
  IN (IF user = c.user /\ token = pays
      THEN 0 - SumSeq(fills, paid)
             - FillCost(c.trading_pair, c.side, c.order.price, remaining)
      ELSE 0)
     + (IF user = c.user /\ token = receives THEN SumSeq(fills, proceeds) ELSE 0)
     + (IF token = pays THEN SumSeq(fills, earned) ELSE 0)

\* what they add to the balance_in_trading: the taker's reserve comes in, and a
\* maker gives up what the taker receives for its fill
InTradingChange(c, fills, user, token) ==
  LET given(o) ==
        IF o.account = user
        THEN FillProceeds(c.trading_pair, c.side, o.price, o.quantity)
        ELSE 0
      remaining == c.order.quantity - TotalQuantity(fills)
      pays == ReservedToken(c.trading_pair, c.side)
      receives == ReservedToken(c.trading_pair, Opposite(c.side))
  IN (IF user = c.user /\ token = pays
      THEN FillCost(c.trading_pair, c.side, c.order.price, remaining)
      ELSE 0)
     - (IF token = receives THEN SumSeq(fills, given) ELSE 0)

SettlesAtMakerPrices(c) ==
  LET settled(r) ==
        /\ r.err = "Ok"
        /\ \A user \in Users : \A token \in Tokens :
             r.e.trading_balance[<<user, token>>]
               = TradingBalances(
                   trading_balance[<<user, token>>].balance
                     + BalanceChange(c, r.ret[2], user, token),
                   trading_balance[<<user, token>>].balance_in_trading
                     + InTradingChange(c, r.ret[2], user, token))
  IN IsSome(order_book_store[c.trading_pair]) => settled(CreateOrderOutcome(c))

\* C30: settlement at maker prices. For a create_order with maker fills
\* (p_i, q_i), a BUY taker's quote balance decreases by the sum of
\* trunc(p_i * q_i / 10^base_decimals) and its base balance increases by the sum
\* of q_i, each maker's base balance_in_trading decreases by q_i and its quote
\* balance increases by trunc(p_i * q_i / 10^base_decimals); mirrored for a SELL
\* taker. The taker's own price only reserves the unfilled remainder, moved from
\* balance to balance_in_trading. No other balance changes.
C30_SettlementAtMakerPrices ==
  \A c \in [trading_pair : TradingPairs \cup SamePairs, order_type : OrderTypes,
            side : OrderSides, order : NewOrders, user : Users] :
    SettlesAtMakerPrices(c)

\* on the pair of one token: a user deposited 1 and sold it at a price at which
\* 1 costs nothing, and no record says who owns it
SamePairLostCredit ==
  /\ ledger["t1"]["exchange"] = 1
  /\ created = 2
  /\ \A user \in Users : \A token \in Tokens :
       trading_balance[<<user, token>>] = TradingBalances(0, 0)
  /\ \A side \in OrderSides : Resting(BookOf(ExchangeEnv, <<"t1", "t1">>), side) = <<>>

\* ------------------------------------------------ exchange: arithmetic
\* a price whose product with 2 fits u128 and not i128, and one whose product
\* with 2 does not fit u128
WidePrices == {2 ^ (WordBits - 2), 2 ^ (WordBits - 1)}

WideOrders == {NewOrder(2, p, 0, "t1") : p \in WidePrices}

FitsI128(x) == x < 2 ^ (WordBits - 1)

\* C31: overflow of price x quantity is detected. Whenever create_order
\* multiplies a price and a quantity whose product does not fit i128 (or does not
\* fit u128), it fails with IncorrectPrecisionCalculation and changes no balance
\* and no order, and so does cancel_order of a resting order with such a
\* product: no wrapped or sign-flipped amount is credited, debited or reserved.
C31_OverflowDetected ==
  /\ \A c \in [trading_pair : TradingPairs, order_type : OrderTypes, side : {"BUY"},
               order : NewOrders \cup WideOrders, user : Users] :
       IsSome(order_book_store[c.trading_pair]) =>
         LET p == place_order(BookOf(ExchangeEnv, c.trading_pair), c.order_type, c.side,
                              c.order, c.user)
             r == CreateOrderOutcome(c)
         IN (p.err = "Ok" /\ ~FitsI128(c.order.price * Remainder([order |-> c.order], p))) =>
              /\ r.err = "IncorrectPrecisionCalculation"
              /\ r.e = ExchangeEnv
  /\ \A pair \in TradingPairs : \A user \in Users :
       IsSome(order_book_store[pair]) =>
         LET it == maker_orders_iter(BookOf(ExchangeEnv, pair), "BUY") IN
         \A i \in 1..Len(it) :
           ~FitsI128(it[i][2].price * it[i][2].quantity) =>
             LET k == orderbook_cancel_order(ExchangeEnv, TRUE, pair, it[i][1], user) IN
             /\ k.err = "IncorrectPrecisionCalculation"
             /\ k.e = ExchangeEnv

\* a buy of 2 at the price 2^(WordBits-2) returns Ok and reserves a negative
\* amount: the balance grows and balance_in_trading is negative
C31_SignFlippedReserve ==
  \E c \in [trading_pair : TradingPairs, order_type : OrderTypes, side : {"BUY"},
            order : WideOrders, user : Users] :
    /\ IsSome(order_book_store[c.trading_pair])
    /\ c.order.price * c.order.quantity < 2 ^ WordBits
    /\ LET r == CreateOrderOutcome(c) IN
       /\ r.err = "Ok"
       /\ r.e.trading_balance[<<c.user, c.trading_pair[2]>>].balance_in_trading
            < trading_balance[<<c.user, c.trading_pair[2]>>].balance_in_trading
       /\ r.e.trading_balance[<<c.user, c.trading_pair[2]>>].balance
            > trading_balance[<<c.user, c.trading_pair[2]>>].balance
       /\ trading_balance[<<c.user, c.trading_pair[2]>>].balance >= 0

\* ------------------------------------------------ exchange: cancellation
CancelOutcome(e, trading_pair, order_id, user) ==
  orderbook_cancel_order(e, TRUE, trading_pair, order_id, user)

\* C32: a failed cancel changes nothing. cancel_order with an OrderBookId that
\* identifies no resting order (unknown price level, unknown id, an order
\* already filled or cancelled) returns an error and leaves the book and every
\* balance unchanged; cancelling the same order twice with nothing in between
\* succeeds once, and the second call changes nothing.
C32_FailedCancelChangesNothing ==
  \A pair \in TradingPairs : \A id \in OrderBookIds : \A user \in Users :
    IsSome(order_book_store[pair]) =>
      LET first == CancelOutcome(ExchangeEnv, pair, id, user)
          again(k) == CancelOutcome(k.e, pair, id, user)
      IN /\ OrderBook_try_get(BookOf(ExchangeEnv, pair), id).err # "Ok" =>
              /\ first.err # "Ok"
              /\ first.e = ExchangeEnv
         /\ first.err = "Ok" =>
              /\ again(first).err # "Ok"
              /\ again(first).e = first.e

\* a level holds a resting order beside the slot of an order that is gone:
\* cancelling the gone one fails, cancelling the resting one releases its
\* positive reserve, and cancelling it again fails
C32_Witness ==
  \E pair \in TradingPairs : \E gone \in OrderBookIds : \E id \in OrderBookIds :
    \E user \in Users :
      /\ IsSome(order_book_store[pair])
      /\ gone.variant = id.variant
      /\ gone.level.price = id.level.price
      /\ gone.level.id < id.level.id
      /\ OrderBook_try_get(BookOf(ExchangeEnv, pair), gone).err = "PriceStoreInvalidIndex"
      /\ CancelOutcome(ExchangeEnv, pair, gone, user).err = "LevelsStoreRemoveFailed"
      /\ LET first == CancelOutcome(ExchangeEnv, pair, id, user) IN
         /\ first.err = "Ok"
         /\ first.ret.account = user
         /\ first.e.trading_balance[<<user, ReservedToken(pair, "SELL")>>].balance
              > trading_balance[<<user, ReservedToken(pair, "SELL")>>].balance
         /\ CancelOutcome(first.e, pair, id, user).err # "Ok"

\* ------------------------------------------------ exchange: order ids
\* C33: an OrderBookId identifies one order for the whole life of the book. An
\* id returned by place_order is not returned again for a different order: in
\* every reachable book, after a resting order is removed (cancelled, or filled
\* by a taker), no placement returns the id it had, also when its price level
\* became empty.
C33_IdsNeverReused ==
  \A book \in StoredBooks : \A side \in OrderSides : \A id \in IdSet(book, side) :
    /\ \A t \in Takers :
         LET r == OrderBook_remove_order(book, id)
             p == PlaceOrderOutcome(r.book, t)
         IN (r.err = "Ok" /\ p.err = "Ok" /\ IsSome(p.taker_order)) =>
              Unwrap(p.taker_order)[1] # id
    /\ \A t \in Takers : \A next \in Takers :
         LET f == PlaceOrderOutcome(book, t)
             p == PlaceOrderOutcome(f.book, next)
         IN (f.err = "Ok" /\ OrderBook_try_get(f.book, id).err # "Ok"
             /\ p.err = "Ok" /\ IsSome(p.taker_order)) =>
              Unwrap(p.taker_order)[1] # id

\* the only order of a price level is removed and the next order placed at that
\* price, by another account, gets the id the removed order had
C33_StaleIdOtherOrder ==
  \E book \in StoredBooks : \E side \in OrderSides : \E id \in IdSet(book, side) :
    \E t \in Takers :
      LET r == OrderBook_remove_order(book, id)
          p == PlaceOrderOutcome(r.book, t)
      IN /\ r.err = "Ok"
         /\ p.err = "Ok"
         /\ IsSome(p.taker_order)
         /\ Unwrap(p.taker_order)[1] = id
         /\ Unwrap(r.ret).account # t.account
         /\ Unwrap(OrderBook_try_get(p.book, id).ret).account = t.account

\* ------------------------------------------------ exchange: the stores
SideStore(book, side) == IF side = "BUY" THEN book.buy_orders ELSE book.sell_orders

\* the prices of the resting orders of a side, read from the slots
RestingPrices(book, side) ==
  LET pls == SideStore(book, side) IN
  {pls.levels[i].orders[j][1].price :
     <<i, j>> \in {<<i, j>> \in (1..Len(pls.levels)) \X (1..MaxCreated) :
                    /\ j <= Len(pls.levels[i].orders)
                    /\ IsSome(pls.levels[i].orders[j])}}

\* C34: PriceLevelStore invariant. After any sequence of push_order,
\* remove_order and update_order, levels and levels_price have the same length,
\* levels[i].price = levels_price[i], levels_price is strictly increasing and no
\* level is empty; best_buy_price is the largest price of a resting buy and
\* best_sell_price the smallest price of a resting sell.
C34_PriceLevelStoreInvariant ==
  \A book \in StoredBooks :
    /\ \A side \in OrderSides :
         LET pls == SideStore(book, side) IN
         /\ Len(pls.levels) = Len(pls.levels_price)
         /\ \A i \in 1..Len(pls.levels) :
              /\ pls.levels[i].price = pls.levels_price[i]
              /\ \E j \in 1..Len(pls.levels[i].orders) : IsSome(pls.levels[i].orders[j])
              /\ \A j \in 1..Len(pls.levels[i].orders) :
                   IsSome(pls.levels[i].orders[j]) =>
                     pls.levels[i].orders[j][1].price = pls.levels_price[i]
         /\ \A i \in 1..Len(pls.levels_price) : \A j \in 1..Len(pls.levels_price) :
              i < j => pls.levels_price[i] < pls.levels_price[j]
    /\ IF RestingPrices(book, "BUY") = {} THEN best_buy_price(book) = None
       ELSE /\ IsSome(best_buy_price(book))
            /\ Unwrap(best_buy_price(book)) \in RestingPrices(book, "BUY")
            /\ \A p \in RestingPrices(book, "BUY") : p <= Unwrap(best_buy_price(book))
    /\ IF RestingPrices(book, "SELL") = {} THEN best_sell_price(book) = None
       ELSE /\ IsSome(best_sell_price(book))
            /\ Unwrap(best_sell_price(book)) \in RestingPrices(book, "SELL")
            /\ \A p \in RestingPrices(book, "SELL") : p >= Unwrap(best_sell_price(book))

\* a side has two levels, the better one with a single order and the other
\* with a removed slot beside a resting order; removing the single order deletes
\* its level and the best price becomes the other level's
C34_Witness ==
  \E book \in StoredBooks : \E side \in OrderSides : \E id \in IdSet(book, side) :
    LET pls == SideStore(book, side)
        r == OrderBook_remove_order(book, id)
        best(b) == IF side = "BUY" THEN best_buy_price(b) ELSE best_sell_price(b)
    IN /\ Len(pls.levels) = 2
       /\ \E i \in 1..2 : \E j \in 1..Len(pls.levels[i].orders) :
            pls.levels[i].orders[j] = None
       /\ best(book) = Some(id.level.price)
       /\ r.err = "Ok"
       /\ Len(SideStore(r.book, side).levels) = 1
       /\ IsSome(best(r.book))
       /\ best(r.book) # best(book)

\* the price stores of the stored books
StoredLevels ==
  UNION {{SideStore(book, side).levels[i] : i \in 1..Len(SideStore(book, side).levels)} :
           <<book, side>> \in StoredBooks \X OrderSides}

\* the slots of a price store that hold an order
FullSlots(ps) == {i \in 1..Len(ps.orders) : IsSome(ps.orders[i])}

PriceStoreConsistent(ps) ==
  /\ DOMAIN ps.order_ids = {ps.orders[i][1].order_id : i \in FullSlots(ps)}
  /\ \A id \in DOMAIN ps.order_ids :
       /\ ps.order_ids[id] \in FullSlots(ps)
       /\ ps.orders[ps.order_ids[id]][1].order_id = id
  /\ \A i \in FullSlots(ps) : ps.orders[i][1].order_id = i
  /\ ps.orders_id_counter = Len(ps.orders)
  /\ PriceStore_is_empty(ps).err = "Ok"

\* C35: PriceStore invariant. After any sequence of add_order, remove_order and
\* the update_order calls of matching, the domain of the id-to-index map is the
\* set of the ids of the non-empty slots, the slot mapped to an id holds the
\* order with that id, the ids handed out are 1, 2, 3, ... in insertion order, a
\* removed slot stays empty and the surviving orders keep their slots, and the
\* assertion of is_empty never fails.
C35_PriceStoreInvariant ==
  \A ps \in StoredLevels :
    /\ PriceStoreConsistent(ps)
    /\ \A order \in NewOrders : \A account \in Users :
         LET a == PriceStore_add_order(ps, NewOrder_into_order(order, account)) IN
         /\ a.ret = Len(ps.orders) + 1
         /\ PriceStoreConsistent(a.ps)
         /\ SubSeq(a.ps.orders, 1, Len(ps.orders)) = ps.orders
    /\ \A id \in 1..(Len(ps.orders) + 1) :
         LET r == PriceStore_remove_order(ps, id) IN
         /\ IsSome(r.ret) <=> id \in FullSlots(ps)
         /\ PriceStoreConsistent(r.ps)
         /\ Len(r.ps.orders) = Len(ps.orders)
         /\ \A i \in 1..Len(ps.orders) :
              r.ps.orders[i] = IF i = id THEN None ELSE ps.orders[i]
         /\ r.ps.orders_id_counter = ps.orders_id_counter

\* a price store with a removed slot before a resting order of quantity 2, of
\* which a taker fills 1: update_order writes the slot and nothing else moves
C35_Witness ==
  \E book \in StoredBooks : \E side \in OrderSides : \E t \in Takers :
    \E i \in 1..Len(SideStore(book, side).levels) :
      LET ps == SideStore(book, side).levels[i]
          after == SideStore(PlaceOrderOutcome(book, t).book, side).levels
      IN /\ Len(ps.orders) = 2
         /\ ps.orders[1] = None
         /\ IsSome(ps.orders[2])
         /\ ps.orders[2][1].quantity = 2
         /\ ps.order_ids[2] = 2
         /\ t.side = Opposite(side)
         /\ Len(after) >= i
         /\ after[i].orders[1] = None
         /\ after[i].orders[2] = Some([ps.orders[2][1] EXCEPT !.quantity = 1])
         /\ after[i].order_ids = ps.order_ids

\* ------------------------------------------------ exchange: the plan
\* the loop of fill_order with `break` in the place of `continue`: it stops at
\* the first maker that violates the limit of the taker
RECURSIVE fill_order_loop_break(_, _, _, _, _)
fill_order_loop_break(makers, taker, side, order_type, acc) ==
  IF makers = <<>> THEN acc
  ELSE LET oix == Head(makers)[1]
           order == Head(makers)[2]
       IN IF order_type = "Limit"
             /\ ((side = "BUY" /\ order.price > taker.price)
                 \/ (side = "SELL" /\ order.price < taker.price))
          THEN acc
          ELSE LET fill_amount == IF order.quantity <= acc.taker_rem_q
                                  THEN order.quantity ELSE acc.taker_rem_q
                   fill_type == IF fill_amount = order.quantity
                                THEN "Complete" ELSE "Partial"
                   maker_fills ==
                     Append(acc.maker_fills,
                            [oix |-> oix, maker_order |-> order, fill_type |-> fill_type,
                             fill_amount |-> fill_amount])
               IN IF acc.taker_rem_q = fill_amount
                  THEN [maker_fills |-> maker_fills, taker_fill_status |-> "Complete",
                        taker_rem_q |-> 0]
                  ELSE fill_order_loop_break(Tail(makers), taker, side, order_type,
                         [maker_fills |-> maker_fills, taker_fill_status |-> "Partial",
                          taker_rem_q |-> acc.taker_rem_q - fill_amount])

fill_order_break(orderbook, taker, side, order_type) ==
  LET pending(acc) ==
        [taker_order |-> taker, maker_fills |-> acc.maker_fills,
         taker_fill_status |-> IF acc.taker_rem_q = taker.quantity
                               THEN "None" ELSE acc.taker_fill_status]
  IN pending(fill_order_loop_break(
               maker_orders_iter(orderbook, Opposite(side)),
               taker, side, order_type,
               [maker_fills |-> <<>>, taker_fill_status |-> "None",
                taker_rem_q |-> taker.quantity]))

\* C36: skip equals break. For every reachable book and every Limit taker the
\* plan of fill_order, which skips the makers that violate the limit, is the
\* plan of the variant that stops at the first such maker: once a maker violates
\* the limit, no later maker of maker_orders_iter satisfies it.
C36_SkipEqualsBreak ==
  \A book \in StoredBooks : \A t \in Takers :
    t.order_type = "Limit" =>
      /\ fill_order(book, t.order, t.side, t.order_type)
           = fill_order_break(book, t.order, t.side, t.order_type)
      /\ LET makers == maker_orders_iter(book, Opposite(t.side)) IN
         \A i \in 1..Len(makers) : \A j \in 1..Len(makers) :
           (i < j /\ ~AcceptableTo(t, makers[i][2])) => ~AcceptableTo(t, makers[j][2])

\* a limit taker fills a maker, is not complete, and the next maker violates
\* its limit: the loop reaches the maker it skips
C36_Witness ==
  \E book \in StoredBooks : \E t \in Takers :
    LET makers == maker_orders_iter(book, Opposite(t.side))
        plan == fill_order(book, t.order, t.side, t.order_type)
    IN /\ t.order_type = "Limit"
       /\ Len(makers) >= 2
       /\ AcceptableTo(t, makers[1][2])
       /\ ~AcceptableTo(t, makers[2][2])
       /\ Len(plan.maker_fills) = 1
       /\ plan.taker_fill_status = "Partial"
       /\ plan = fill_order_break(book, t.order, t.side, t.order_type)

\* the takers of any quantity from 0
TakersFromNothing ==
  [order_type : OrderTypes, side : OrderSides,
   order : {NewOrder(q, p, 0, "t1") : q \in 0..MaxQuantity, p \in Prices},
   account : Users]

PlanOf(book, t) == fill_order(book, t.order, t.side, t.order_type)

\* C37: the commit phase never rejects its own plan. For every reachable book
\* and every taker (any side, type, price and quantity, quantity 0 and the empty
\* book included) finalize_matching applied to the plan fill_order just made on
\* the book returns Ok: no InvalidOrderId or InvalidIdFailedToUpdate, no maker
\* status None, no failed assertion; what is left of the taker agrees with the
\* taker status (Complete: nothing, Partial: less than the taker's quantity,
\* None: all of it), and the status is None exactly when the taker's quantity was
\* not reduced.
C37_CommitAcceptsPlan ==
  \A book \in StoredBooks : \A t \in TakersFromNothing :
    LET plan == PlanOf(book, t)
        f == finalize_matching(book, plan)
        left == IF IsSome(f.taker_order) THEN Unwrap(f.taker_order).quantity ELSE 0
    IN /\ f.err = "Ok"
       /\ \A i \in 1..Len(plan.maker_fills) : plan.maker_fills[i].fill_type # "None"
       /\ f.status = plan.taker_fill_status
       /\ plan.taker_fill_status = "Complete" => left = 0
       /\ plan.taker_fill_status = "Partial" => left < t.order.quantity
       /\ plan.taker_fill_status = "None" <=> left = t.order.quantity
       /\ left = t.order.quantity - TotalQuantity(f.maker_orders)

\* on one book a taker of quantity 0 gets a plan with a partial fill of nothing,
\* and another taker a plan with a complete and a partial maker fill; both plans
\* are committed
C37_Witness ==
  \E book \in StoredBooks : \E zero \in TakersFromNothing : \E t \in TakersFromNothing :
    /\ zero.order.quantity = 0
    /\ Len(PlanOf(book, zero).maker_fills) = 1
    /\ PlanOf(book, zero).maker_fills[1].fill_amount = 0
    /\ PlanOf(book, zero).taker_fill_status = "None"
    /\ finalize_matching(book, PlanOf(book, zero)).err = "Ok"
    /\ Len(PlanOf(book, t).maker_fills) = 2
    /\ PlanOf(book, t).maker_fills[1].fill_type = "Complete"
    /\ PlanOf(book, t).maker_fills[2].fill_type = "Partial"
    /\ PlanOf(book, t).taker_fill_status = "Complete"
    /\ finalize_matching(book, PlanOf(book, t)).err = "Ok"

\* ------------------------------------------------ exchange: the sides
\* every resting order has a quantity, and the best buy is below the best sell
Uncrossed(book) ==
  /\ \A side \in OrderSides :
       \A i \in 1..Len(Resting(book, side)) : Resting(book, side)[i].quantity > 0
  /\ (IsSome(best_buy_price(book)) /\ IsSome(best_sell_price(book))) =>
       Unwrap(best_buy_price(book)) < Unwrap(best_sell_price(book))

\* C38: the book is never crossed and holds no empty order. After any sequence
\* of place_order (Limit or Market, of any quantity) and cancel_order from an
\* empty book, every resting order has quantity > 0, and when both sides are
\* non-empty best_buy_price < best_sell_price.
C38_NeverCrossed ==
  \A book \in StoredBooks :
    /\ Uncrossed(book)
    /\ \A t \in TakersFromNothing :
         /\ PlaceOrderOutcome(book, t).err = "Ok"
         /\ Uncrossed(PlaceOrderOutcome(book, t).book)
    /\ \A side \in OrderSides : \A id \in IdSet(book, side) :
         Uncrossed(OrderBook_remove_order(book, id).book)

\* sells rest at two prices; a limit buy at the lower price for more than rests
\* there takes the cheaper sell and rests below the dearer one
C38_Witness ==
  \E book \in StoredBooks : \E t \in Takers :
    LET p == PlaceOrderOutcome(book, t) IN
    /\ t.side = "BUY"
    /\ t.order_type = "Limit"
    /\ Len(Resting(book, "SELL")) = 2
    /\ best_sell_price(book) = Some(t.order.price)
    /\ Len(p.maker_orders) = 1
    /\ best_buy_price(p.book) = Some(t.order.price)
    /\ IsSome(best_sell_price(p.book))
    /\ Unwrap(best_sell_price(p.book)) > t.order.price

\* C39: only the owner of an order can cancel it. cancel_order(user, order_id)
\* releases the reservation of the removed order to the account that placed it,
\* and to nobody else; when user is not the account stored in the order the call
\* fails and neither the book nor any balance changes.
C39_OnlyOwnerCancels ==
  \A pair \in TradingPairs : \A id \in OrderBookIds : \A user \in Users :
    IsSome(order_book_store[pair]) =>
      LET g == OrderBook_try_get(BookOf(ExchangeEnv, pair), id)
          k == CancelOutcome(ExchangeEnv, pair, id, user)
      IN g.err = "Ok" =>
           IF Unwrap(g.ret).account = user
           THEN k.err = "Ok" =>
                  \A other \in Users \ {user} : \A token \in Tokens :
                    k.e.trading_balance[<<other, token>>] = trading_balance[<<other, token>>]
           ELSE /\ k.err # "Ok"
                /\ k.e = ExchangeEnv

\* a user deposited and placed a sell, another user who owns nothing cancels
\* it: the call returns Ok, the order is gone, the caller's balance is credited
\* the reserve and the owner's balance_in_trading still holds it
C39_CancelledByStranger ==
  \E pair \in TradingPairs : \E id \in OrderBookIds : \E user \in Users :
    /\ IsSome(order_book_store[pair])
    /\ id.variant = "SellId"
    /\ \A token \in Tokens : trading_balance[<<user, token>>] = TradingBalances(0, 0)
    /\ LET g == OrderBook_try_get(BookOf(ExchangeEnv, pair), id)
           k == CancelOutcome(ExchangeEnv, pair, id, user)
       IN /\ g.err = "Ok"
          /\ Unwrap(g.ret).account # user
          /\ trading_balance[<<Unwrap(g.ret).account, pair[1]>>]
               = TradingBalances(0, Unwrap(g.ret).quantity)
          /\ k.err = "Ok"
          /\ OrderBook_try_get(BookOf(k.e, pair), id).err # "Ok"
          /\ k.e.trading_balance[<<user, pair[1]>>]
               = TradingBalances(Unwrap(g.ret).quantity, 0 - Unwrap(g.ret).quantity)
          /\ k.e.trading_balance[<<Unwrap(g.ret).account, pair[1]>>]
               = trading_balance[<<Unwrap(g.ret).account, pair[1]>>]

\* ------------------------------------------------ asset manager: pending withdrawals
\* the sum of the amounts of the withdraw records of (user, token) that are in
\* Requested status
RECURSIVE RequestedSum(_, _, _)
RequestedSum(ids, user, token) ==
  IF ids = {} THEN 0
  ELSE LET id == CHOOSE i \in ids : TRUE
           w == withdraw_request[id]
       IN (IF IsSome(w) /\ Unwrap(w).status = "Requested" /\ Unwrap(w).user = user
              /\ Unwrap(w).token = token
           THEN Unwrap(w).amount ELSE 0)
          + RequestedSum(ids \ {id}, user, token)

\* C40: reserved-for-withdraw matches pending requests. In every reachable
\* state of AssetManager, for every (user, token), balance_on_withdraw is the sum
\* of the amounts of the user's withdraw records for the token that are in
\* Requested status; so the BalanceNotEnough check of ExecuteWithdraw(Approve)
\* never fails for a record in Requested status supplied with matching data.
C40_ReservedMatchesRequests ==
  /\ \A user \in Accounts : \A token \in Tokens :
       user_balance[<<user, token>>].balance_on_withdraw
         = RequestedSum(WithdrawIds, user, token)
  /\ \A id \in WithdrawIds :
       (IsSome(withdraw_request[id]) /\ Unwrap(withdraw_request[id]).status = "Requested") =>
         LET w == Unwrap(withdraw_request[id]) IN
         /\ w.amount > 0
         /\ user_balance[<<w.user, w.token>>].balance_on_withdraw >= w.amount
         /\ ExecuteWithdrawOn(Env, ExecutionWithdrawData(id, w.user, w.token, w.amount,
                                                          "Approve")).err
              # "ErrBalanceNotEnough"

\* a user has a withdraw record in Requested status beside a decided record of
\* the same token, and only the requested amount is reserved
C40_Witness ==
  \E id \in WithdrawIds : \E decided \in WithdrawIds :
    /\ IsSome(withdraw_request[id])
    /\ IsSome(withdraw_request[decided])
    /\ Unwrap(withdraw_request[id]).status = "Requested"
    /\ Unwrap(withdraw_request[decided]).status # "Requested"
    /\ Unwrap(withdraw_request[decided]).user = Unwrap(withdraw_request[id]).user
    /\ Unwrap(withdraw_request[decided]).token = Unwrap(withdraw_request[id]).token
    /\ user_balance[<<Unwrap(withdraw_request[id]).user, Unwrap(withdraw_request[id]).token>>]
         .balance_on_withdraw = Unwrap(withdraw_request[id]).amount
    /\ ExecuteWithdrawOn(Env, ExecutionWithdrawData(id, Unwrap(withdraw_request[id]).user,
         Unwrap(withdraw_request[id]).token, Unwrap(withdraw_request[id]).amount,
         "Approve")).err = "Ok"

====
